---- MODULE Spec2Model ----
(***************************************************************************)
(* A model of the EDL core (edl-lang/edl): the tree-walking interpreter    *)
(* of core/src/runtime.rs, driven statement by statement as the REPL of    *)
(* cli/src/main.rs drives it, and the tokenizer and parser of              *)
(* core/src/lexer.rs and core/src/parser.rs as eval_source of              *)
(* core/src/lib.rs runs them.                                              *)
(*                                                                         *)
(* Representation.                                                         *)
(*  - An f64 is an integer count of halves: Number(3) is 1.5.  Results     *)
(*    that are no multiple of one half (or are -0.0) are outside the       *)
(*    model and end an evaluation with the outcome "Bound".                *)
(*  - Source text, string literals, string values and printed lines are    *)
(*    sequences of one-character strings.  Names are TLA+ strings.         *)
(*  - Option<T> is a sequence of length 0 (None) or 1 (Some).              *)
(*  - An Environment is the sequence of its frames, innermost first; a     *)
(*    Box<Environment> clone is a copy of the value, which is what a       *)
(*    TLA+ value is.                                                       *)
(*  - A Result is a record [k, v, it]: k is "Ok", "Return" (the            *)
(*    RuntimeError::Return marker), "Message" (RuntimeError::Message) or   *)
(*    "Bound"; v is the value or the message; it is the interpreter and    *)
(*    its console after the evaluation.                                    *)
(***************************************************************************)
EXTENDS Integers, Sequences, FiniteSets, TLC

VARIABLES
    src,      \* the source text given to eval_source (SpecSource)
    phase,    \* "parse" before the text is parsed, "eval" while statements run, "done"
    stmts,    \* the top-level statements of the session
    pc,       \* the index of the next statement to evaluate
    env,      \* Interpreter.env
    stdout,   \* the lines printed so far
    stdin,    \* the lines the console still holds
    result,   \* what the last eval_stmt (or the parse) returned: [k, v]
    prev,     \* history: env and stdout before the last eval_stmt
    operands, \* the operator and the two values given to eval_binary (SpecBinary)
    lexer     \* the Lexer that next_token is called on (SpecLexer)

vars == <<src, phase, stmts, pc, env, stdout, stdin, result, prev, operands, lexer>>

(***************************************************************************)
(* Bounds of the model.                                                    *)
(***************************************************************************)
\* calls and while-iterations one top-level statement may spend
MaxFuel == 12
\* numbers 0..MaxVal (whole) are the literals the sessions are built from
MaxVal == 2

(***************************************************************************)
(* Values (runtime.rs, enum Value).                                        *)
(***************************************************************************)
Number(n) == [t |-> "Number", n |-> n]
Bool(b) == [t |-> "Bool", b |-> b]
String(s) == [t |-> "String", s |-> s]
Function(params, body) == [t |-> "Function", params |-> params, body |-> body]
Null == [t |-> "Null"]
List(items) == [t |-> "List", items |-> items]
Type(name, fields, methods) ==
    [t |-> "Type", name |-> name, fields |-> fields, methods |-> methods]
Instance(typ, fields) == [t |-> "Instance", typ |-> typ, fields |-> fields]

\* a whole number as an f64 (i as f64)
Whole(i) == 2 * i

(***************************************************************************)
(* The AST (ast.rs): constructors of Expr and Stmt.                        *)
(***************************************************************************)
ENumber(n) == [e |-> "Number", n |-> n]
EBool(b) == [e |-> "Bool", b |-> b]
EString(s) == [e |-> "String", s |-> s]
EVariable(name) == [e |-> "Variable", name |-> name]
EBinary(left, op, right) == [e |-> "Binary", left |-> left, op |-> op, right |-> right]
EUnary(op, expr) == [e |-> "Unary", op |-> op, expr |-> expr]
ECall(function, arguments) == [e |-> "Call", function |-> function, arguments |-> arguments]
EAssign(name, expr) == [e |-> "Assign", name |-> name, expr |-> expr]
EBlock(block) == [e |-> "Block", stmts |-> block]
EList(elements) == [e |-> "List", elements |-> elements]
ELambda(params, body) == [e |-> "Lambda", params |-> params, body |-> body]
EFieldAccess(object, field) == [e |-> "FieldAccess", object |-> object, field |-> field]
EInstance(type_name, fields) == [e |-> "Instance", type_name |-> type_name, fields |-> fields]

SExpr(expr) == [s |-> "Expr", expr |-> expr]
SLet(name, expr) == [s |-> "Let", name |-> name, expr |-> expr]
SConst(name, expr) == [s |-> "Const", name |-> name, expr |-> expr]
SFunction(name, params, body) == [s |-> "Function", name |-> name, params |-> params, body |-> body]
\* the optional expression of a return is named `value`: a field name holds one
\* kind of TLA+ value throughout, so that any two nodes can be compared
SReturn(value) == [s |-> "Return", value |-> value]
SIf(condition, then_branch, else_branch) ==
    [s |-> "If", condition |-> condition, then_branch |-> then_branch,
     else_branch |-> else_branch]
SWhile(condition, body) == [s |-> "While", condition |-> condition, body |-> body]
SFor(var, start, end, body) ==
    [s |-> "For", var |-> var, start |-> start, end |-> end, body |-> body]
SImport(path) == [s |-> "Import", path |-> path]
SBlock(block) == [s |-> "Block", stmts |-> block]
SBreak == [s |-> "Break"]
SContinue == [s |-> "Continue"]
SPrint(expr) == [s |-> "Print", expr |-> expr]
SPrintArgs(args) == [s |-> "PrintArgs", args |-> args]
SType(name, fields, methods) ==
    [s |-> "Type", name |-> name, fields |-> fields, methods |-> methods]

(***************************************************************************)
(* Environment (runtime.rs 41-89).                                         *)
(***************************************************************************)
NoVars == [k \in {} |-> Null]

\* HashMap::insert
Insert(m, key, val) == [k \in DOMAIN m \cup {key} |-> IF k = key THEN val ELSE m[k]]

\* Environment::new
EnvNew == <<NoVars>>

\* Environment::with_parent
\* a frame that is not chained to a parent: the environment a call would get
\* were the function's frame not a child of the caller's
detached_frame(parent) == <<NoVars>>
with_parent(parent) == <<NoVars>> \o parent

\* Environment::get
RECURSIVE EnvGet(_, _)
EnvGet(e, key) ==
    IF key \in DOMAIN e[1] THEN <<e[1][key]>>
    ELSE IF Len(e) > 1 THEN EnvGet(Tail(e), key)
    ELSE <<>>

\* Environment::set
EnvSet(e, key, val) == [e EXCEPT ![1] = Insert(@, key, val)]

\* an assignment that binds the key in the current frame whatever the chain holds
assign_in_frame(e, key, val) == [ok |-> TRUE, env |-> EnvSet(e, key, val)]

\* Environment::assign: the environment after, and whether a frame had the key
RECURSIVE EnvAssign(_, _, _)
EnvAssign(e, key, val) ==
    IF key \in DOMAIN e[1] THEN [ok |-> TRUE, env |-> EnvSet(e, key, val)]
    ELSE IF Len(e) > 1
         THEN LET r == EnvAssign(Tail(e), key, val)
              IN  [ok |-> r.ok, env |-> <<e[1]>> \o r.env]
         ELSE [ok |-> FALSE, env |-> e]

(***************************************************************************)
(* Interpreter::new (runtime.rs 105-139): the global frame with the        *)
(* built-in functions.                                                     *)
(***************************************************************************)
InterpreterNew ==
    LET e0 == EnvNew
        e1 == EnvSet(e0, "input", Function(<<>>, <<>>))
        e2 == EnvSet(e1, "to_number", Function(<<"x">>, <<>>))
        e3 == EnvSet(e2, "length", Function(<<"list">>, <<>>))
        e4 == EnvSet(e3, "push", Function(<<"list", "item">>, <<>>))
        e5 == EnvSet(e4, "remove", Function(<<"list", "index">>, <<>>))
    IN  e5

(***************************************************************************)
(* Characters and numerals.                                                *)
(***************************************************************************)
Digits == <<"0", "1", "2", "3", "4", "5", "6", "7", "8", "9">>
Lower == <<"a", "b", "c", "d", "e", "f", "g", "h", "i", "j", "k", "l", "m",
           "n", "o", "p", "q", "r", "s", "t", "u", "v", "w", "x", "y", "z">>
Upper == <<"A", "B", "C", "D", "E", "F", "G", "H", "I", "J", "K", "L", "M",
           "N", "O", "P", "Q", "R", "S", "T", "U", "V", "W", "X", "Y", "Z">>
Range(seq) == {seq[i] : i \in DOMAIN seq}
is_ascii_digit(c) == c \in Range(Digits)
is_ascii_alphabetic(c) == c \in Range(Lower) \cup Range(Upper)
is_whitespace(c) == c \in {" ", "\t", "\r", "\n"}
DigitVal(c) == CHOOSE d \in 0..9 : Digits[d + 1] = c
IndexOf(seq, c) == CHOOSE i \in DOMAIN seq : seq[i] = c
Abs(n) == IF n < 0 THEN -n ELSE n

\* the decimal digits of a natural number
RECURSIVE NatToChars(_)
NatToChars(n) ==
    IF n < 10 THEN <<Digits[n + 1]>>
    ELSE NatToChars(n \div 10) \o <<Digits[(n % 10) + 1]>>

\* f64::to_string of a number of halves: 1.0 is "1", 1.5 is "1.5"
f64_to_string(h) ==
    (IF h < 0 THEN <<"-">> ELSE <<>>)
    \o NatToChars(Abs(h) \div 2)
    \o (IF Abs(h) % 2 = 1 THEN <<".", "5">> ELSE <<>>)

\* the value of a sequence of digits
RECURSIVE DigitsVal(_)
DigitsVal(ds) ==
    IF ds = <<>> THEN 0
    ELSE 10 * DigitsVal(SubSeq(ds, 1, Len(ds) - 1)) + DigitVal(ds[Len(ds)])

\* str::parse::<f64> of a text: [k |-> "Ok", n |-> halves], [k |-> "Err"], or
\* [k |-> "Bound"] for a numeral that is no multiple of one half and for the
\* forms with an exponent, inf or nan.
parse_f64(cs) ==
    LET signed == cs # <<>> /\ cs[1] \in {"+", "-"}
        body == IF signed THEN Tail(cs) ELSE cs
        dots == {i \in DOMAIN body : body[i] = "."}
        plain == \A i \in DOMAIN body : is_ascii_digit(body[i]) \/ body[i] = "."
        special == \E i \in DOMAIN body :
                      body[i] \in {"e", "E", "i", "I", "n", "N", "f", "F", "a", "A",
                                   "t", "T", "y", "Y"}
        dot == IF dots = {} THEN Len(body) + 1 ELSE CHOOSE i \in dots : TRUE
        int == SubSeq(body, 1, dot - 1)
        frac == SubSeq(body, dot + 1, Len(body))
        zeros(ds) == \A i \in DOMAIN ds : ds[i] = "0"
        mag == 2 * DigitsVal(int) + (IF zeros(frac) THEN 0 ELSE 1)
    IN  IF ~plain THEN (IF special THEN [k |-> "Bound"] ELSE [k |-> "Err"])
        ELSE IF Cardinality(dots) > 1 \/ Len(body) = Cardinality(dots) THEN [k |-> "Err"]
        ELSE IF ~(zeros(frac) \/ (frac[1] = "5" /\ zeros(Tail(frac)))) THEN [k |-> "Bound"]
        ELSE IF signed /\ cs[1] = "-" /\ mag = 0 THEN [k |-> "Bound"]
        ELSE [k |-> "Ok", n |-> IF signed /\ cs[1] = "-" THEN -mag ELSE mag]

\* str::trim
RECURSIVE trim_start(_)
trim_start(cs) == IF cs # <<>> /\ is_whitespace(cs[1]) THEN trim_start(Tail(cs)) ELSE cs
RECURSIVE trim_end(_)
trim_end(cs) ==
    IF cs # <<>> /\ is_whitespace(cs[Len(cs)]) THEN trim_end(SubSeq(cs, 1, Len(cs) - 1))
    ELSE cs
trim(cs) == trim_end(trim_start(cs))

to_uppercase(cs) ==
    [i \in DOMAIN cs |-> IF cs[i] \in Range(Lower) THEN Upper[IndexOf(Lower, cs[i])] ELSE cs[i]]
to_lowercase(cs) ==
    [i \in DOMAIN cs |-> IF cs[i] \in Range(Upper) THEN Lower[IndexOf(Upper, cs[i])] ELSE cs[i]]

\* f64 as i64: truncation toward zero (the saturating cases are out of range)
as_i64(h) == IF h >= 0 THEN h \div 2 ELSE -((-h) \div 2)

(***************************************************************************)
(* Results of an evaluation.                                               *)
(***************************************************************************)
Ok(v, it) == [k |-> "Ok", v |-> v, it |-> it]
ErrMessage(msg, it) == [k |-> "Message", v |-> msg, it |-> it]
ErrReturn(v, it) == [k |-> "Return", v |-> v, it |-> it]
OutOfBound(it) == [k |-> "Bound", v |-> Null, it |-> it]

\* fn is_truthy (runtime.rs 435-446)
is_truthy(val) ==
    CASE val.t = "Bool" -> val.b
      [] val.t = "Null" -> FALSE
      [] val.t = "Number" -> val.n # 0
      [] val.t = "String" -> val.s # <<>>
      [] val.t = "List" -> val.items # <<>>
      [] OTHER -> TRUE

\* fn get_num (runtime.rs 449-454)
get_num(val) == IF val.t = "Number" THEN val.n ELSE 0

\* the product, quotient and power of two numbers of halves, or <<>> when the
\* result is no number of halves (or is -0.0)
MulHalves(a, b) ==
    IF (a * b) % 2 # 0 \/ (a * b = 0 /\ (a < 0 \/ b < 0)) THEN <<>>
    ELSE <<(a * b) \div 2>>
DivHalves(a, b) ==
    IF (2 * Abs(a)) % Abs(b) # 0 \/ (a = 0 /\ b < 0) THEN <<>>
    ELSE <<(IF (a < 0) # (b < 0) THEN -1 ELSE 1) * ((2 * Abs(a)) \div Abs(b))>>
RECURSIVE IntPow(_, _)
IntPow(b, n) == IF n = 0 THEN 1 ELSE b * IntPow(b, n - 1)
PowHalves(a, b) ==
    IF a % 2 = 0 /\ b % 2 = 0 /\ b >= 0 /\ b <= 16 THEN <<2 * IntPow(a \div 2, b \div 2)>>
    ELSE <<>>

\* an operator table without an operand-type policy: every operator applies
\* to the truthiness of its operands
untyped_binary(op, left, right) ==
    [k |-> "Ok", v |-> Bool(is_truthy(left) /\ is_truthy(right))]

\* fn eval_binary (runtime.rs 457-513); the result has no interpreter
eval_binary(op, left, right) ==
    LET nums == left.t = "Number" /\ right.t = "Number"
        bools == left.t = "Bool" /\ right.t = "Bool"
        a == left.n
        b == right.n
        ok(v) == [k |-> "Ok", v |-> v]
        err(m) == [k |-> "Message", v |-> m]
        num(o) == IF o = <<>> THEN [k |-> "Bound", v |-> Null] ELSE ok(Number(o[1]))
    IN  CASE op = "Add" ->
               IF nums THEN ok(Number(a + b))
               ELSE IF left.t = "String" /\ right.t = "String" THEN ok(String(left.s \o right.s))
               ELSE err("Invalid operands for '+'")
          [] op = "Sub" -> IF nums THEN ok(Number(a - b)) ELSE err("Invalid operands for '-'")
          [] op = "Mul" -> IF nums THEN num(MulHalves(a, b)) ELSE err("Invalid operands for '*'")
          [] op = "Div" ->
               IF nums THEN (IF b = 0 THEN err("Division by zero") ELSE num(DivHalves(a, b)))
               ELSE err("Invalid operands for '/'")
          [] op = "Eq" -> ok(Bool(left = right))
          [] op = "Neq" -> ok(Bool(left # right))
          [] op = "Lt" -> IF nums THEN ok(Bool(a < b)) ELSE err("Invalid operands for '<'")
          [] op = "Lte" -> IF nums THEN ok(Bool(a <= b)) ELSE err("Invalid operands for '<='")
          [] op = "Gt" -> IF nums THEN ok(Bool(a > b)) ELSE err("Invalid operands for '>'")
          [] op = "Gte" -> IF nums THEN ok(Bool(a >= b)) ELSE err("Invalid operands for '>='")
          [] op = "And" -> IF bools THEN ok(Bool(left.b /\ right.b))
                           ELSE err("Invalid operands for 'and'")
          [] op = "Or" -> IF bools THEN ok(Bool(left.b \/ right.b))
                          ELSE err("Invalid operands for 'or'")
          [] op = "Pow" -> num(PowHalves(get_num(left), get_num(right)))
          [] OTHER -> err("Not yet implemented: " \o op)

\* the strings of a sequence joined by a separator (slice::join)
RECURSIVE join(_, _)
join(strs, sep) ==
    IF strs = <<>> THEN <<>>
    ELSE IF Len(strs) = 1 THEN strs[1]
    ELSE strs[1] \o sep \o join(Tail(strs), sep)

\* fn value_to_string (runtime.rs 525-539)
RECURSIVE value_to_string(_)
value_to_string(val) ==
    CASE val.t = "Number" -> f64_to_string(val.n)
      [] val.t = "Bool" -> IF val.b THEN <<"t", "r", "u", "e">> ELSE <<"f", "a", "l", "s", "e">>
      [] val.t = "String" -> val.s
      [] val.t = "Null" -> <<"n", "u", "l", "l">>
      [] val.t = "Function" -> <<"<", "f", "u", "n", "c", "t", "i", "o", "n", ">">>
      [] val.t = "Type" -> <<"<", "t", "y", "p", "e", " ", val.name, ">">>
      [] val.t = "List" ->
           <<"[">> \o join([i \in DOMAIN val.items |-> value_to_string(val.items[i])],
                           <<",", " ">>) \o <<"]">>
      [] OTHER -> <<"<", "i", "n", "s", "t", "a", "n", "c", "e", ">">>

\* a callee that passes for every built-in name
any_callee(function, name) == TRUE

\* fn function_is_input .. function_is_remove (runtime.rs 543-588)
function_is(function, name) == function.e = "Variable" /\ function.name = name
function_is_input(function) == function_is(function, "input")
function_is_to_number(function) == function_is(function, "to_number")
function_is_length(function) == function_is(function, "length")
function_is_push(function) == function_is(function, "push")
function_is_remove(function) == function_is(function, "remove")

(***************************************************************************)
(* The interpreter (runtime.rs 142-431).  `it` is the interpreter and its  *)
(* console: [env, out, inp, fuel].                                         *)
(***************************************************************************)
\* f64 as usize: truncation, a negative number saturating to 0
as_usize(h) == IF h < 0 THEN 0 ELSE h \div 2

\* Vec::remove of the element at 0-based index i
VecRemove(list, i) == SubSeq(list, 1, i) \o SubSeq(list, i + 2, Len(list))

\* a call that no native handler intercepts
no_native(func, function, args, it) == <<>>

\* the native handlers of Expr::Call (runtime.rs 304-347): <<>> when none
\* intercepts the call, else the result of the one that does
native_call(func, function, args, it) ==
    IF func.params = <<>> /\ func.body = <<>> /\ function_is_input(function)
    THEN LET line == IF it.inp = <<>> THEN <<>> ELSE Head(it.inp)
             rest == IF it.inp = <<>> THEN <<>> ELSE Tail(it.inp)
         IN  <<Ok(String(trim(line)), [it EXCEPT !.inp = rest])>>
    ELSE IF func.params = <<"x">> /\ func.body = <<>> /\ function_is_to_number(function)
    THEN IF Len(args) >= 1 /\ args[1].t = "String"
         THEN LET n == parse_f64(args[1].s)
              IN  IF n.k = "Ok" THEN <<Ok(Number(n.n), it)>>
                  ELSE IF n.k = "Bound" THEN <<OutOfBound(it)>>
                  ELSE <<ErrMessage("Invalid number", it)>>
         ELSE <<ErrMessage("to_number expects a string", it)>>
    ELSE IF func.params = <<"list">> /\ func.body = <<>> /\ function_is_length(function)
    THEN IF Len(args) >= 1 /\ args[1].t = "List"
         THEN <<Ok(Number(Whole(Len(args[1].items))), it)>>
         ELSE <<ErrMessage("length expects a list", it)>>
    ELSE IF func.params = <<"list", "item">> /\ func.body = <<>> /\ function_is_push(function)
    THEN IF Len(args) >= 2 /\ args[1].t = "List"
         THEN <<Ok(List(Append(args[1].items, args[2])), it)>>
         ELSE <<ErrMessage("push expects a list and an item", it)>>
    ELSE IF func.params = <<"list", "index">> /\ func.body = <<>> /\ function_is_remove(function)
    THEN IF Len(args) >= 2 /\ args[1].t = "List" /\ args[2].t = "Number"
         THEN LET i == as_usize(args[2].n)
              IN  IF i < Len(args[1].items)
                  THEN <<Ok(List(VecRemove(args[1].items, i)), it)>>
                  ELSE <<ErrMessage("remove: index out of bounds", it)>>
         ELSE <<ErrMessage("remove expects a list and an index", it)>>
    ELSE <<>>

\* the arity check of a call (runtime.rs 349-351)
arity_mismatch(func, args) == Len(func.params) # Len(args)

\* the frame of a call: a child of the caller's environment with each
\* parameter bound to its argument (runtime.rs 352-356)
RECURSIVE bind_params(_, _, _)
bind_params(local_env, params, args) ==
    IF params = <<>> \/ args = <<>> THEN local_env
    ELSE bind_params(EnvSet(local_env, params[1], args[1]), Tail(params), Tail(args))
call_env(previous_env, func, args) ==
    bind_params(with_parent(previous_env), func.params, args)

\* a call that lets the Return marker through
propagate_return(r) == r
\* a Return marker leaving the body becomes the call's value (runtime.rs 358-361)
intercept_return(r) == IF r.k = "Return" THEN [r EXCEPT !.k = "Ok"] ELSE r

\* a call that leaves the callee's environment active
keep_callee_env(r, previous_env) == r
\* the caller's environment is put back (runtime.rs 362)
restore_env(r, previous_env) == [r EXCEPT !.it.env = previous_env]

\* a field access whose method comes without the `self` parameter
unbound_method(obj, field, it) ==
    IF obj.t # "Instance" THEN ErrMessage("Not an instance", it)
    ELSE IF field \in DOMAIN obj.typ.methods THEN Ok(obj.typ.methods[field], it)
    ELSE IF field \in DOMAIN obj.fields THEN Ok(obj.fields[field], it)
    ELSE ErrMessage("Unknown field or method '" \o field \o "'", it)

\* Expr::FieldAccess once the object is evaluated (runtime.rs 390-427)
field_access(obj, field, it) ==
    CASE obj.t = "Instance" ->
           IF field \in DOMAIN obj.typ.methods
           THEN LET func == obj.typ.methods[field]
                IN  Ok(Function(<<"self">> \o func.params, func.body), it)
           ELSE IF field \in DOMAIN obj.fields THEN Ok(obj.fields[field], it)
           ELSE ErrMessage("Unknown field or method '" \o field \o "'", it)
      [] obj.t = "List" ->
           IF field = "push" THEN Ok(Function(<<"item">>, <<>>), it)
           ELSE IF field = "remove" THEN Ok(Function(<<"index">>, <<>>), it)
           ELSE IF field \in {"length", "len"} THEN Ok(Number(Whole(Len(obj.items))), it)
           ELSE ErrMessage("Unknown list method '" \o field \o "'", it)
      [] obj.t = "String" ->
           IF field \in {"len", "length"} THEN Ok(Number(Whole(Len(obj.s))), it)
           ELSE IF field = "to_upper" THEN Ok(String(to_uppercase(obj.s)), it)
           ELSE IF field = "to_lower" THEN Ok(String(to_lowercase(obj.s)), it)
           ELSE ErrMessage("Unknown string method '" \o field \o "'", it)
      [] OTHER -> ErrMessage("Not an instance", it)

\* the methods of a type declaration (runtime.rs 238-247)
RECURSIVE methods_map(_)
methods_map(methods) ==
    IF methods = <<>> THEN NoVars
    ELSE LET m == methods[Len(methods)]
             rest == methods_map(SubSeq(methods, 1, Len(methods) - 1))
         IN  IF m.s = "Function" THEN Insert(rest, m.name, Function(m.params, m.body))
             ELSE rest

\* the end of a range that includes its upper bound
inclusive_end(v) == as_i64(get_num(v)) + 1
\* the integers a For statement iterates over (runtime.rs 198-200)
for_start(v) == as_i64(get_num(v))
for_end(v) == as_i64(get_num(v))

\* the element of a set of one element: Only({e(x) : x \in {v}}) is e(v) with
\* v evaluated once, which is how `let x = v; e` of the source is written, and
\* `let x = v?; e` with the test of x first
Only(S) == CHOOSE y \in S : TRUE

\* the result of eval_binary in the interpreter `it`
with_it(b, it) == [k |-> b.k, v |-> b.v, it |-> it]

RECURSIVE eval_stmt(_, _)
RECURSIVE eval_expr(_, _)
RECURSIVE eval_block(_, _)
RECURSIVE eval_body(_, _)
RECURSIVE eval_block_from(_, _, _, _)
RECURSIVE eval_body_from(_, _, _, _)
RECURSIVE eval_exprs(_, _, _)
RECURSIVE while_loop(_, _)
RECURSIVE for_loop(_, _, _, _)
RECURSIVE print_args(_, _, _)
RECURSIVE eval_fields(_, _, _)
RECURSIVE eval_call(_, _)
RECURSIVE call_function(_, _, _, _)

\* Interpreter::eval_block (runtime.rs 142-148)
eval_block_from(block, i, last, it) ==
    IF i > Len(block) THEN Ok(last, it)
    ELSE Only({IF r.k # "Ok" THEN r ELSE
               eval_block_from(block, i + 1, r.v, r.it)
               : r \in {eval_stmt(block[i], it)}})
eval_block(block, it) == eval_block_from(block, 1, Null, it)

\* fn eval_body (runtime.rs 516-522)
eval_body_from(body, i, last, it) ==
    IF i > Len(body) THEN Ok(last, it)
    ELSE Only({IF r.k # "Ok" THEN r ELSE
               eval_body_from(body, i + 1, r.v, r.it)
               : r \in {eval_stmt(body[i], it)}})
eval_body(body, it) == eval_body_from(body, 1, Null, it)

\* iter().map(eval_expr).collect::<Result<Vec<_>, _>>(): the values, left to
\* right, up to the first error
eval_exprs(exprs, acc, it) ==
    IF exprs = <<>> THEN Ok(acc, it)
    ELSE Only({IF r.k # "Ok" THEN r ELSE
               eval_exprs(Tail(exprs), Append(acc, r.v), r.it)
               : r \in {eval_expr(exprs[1], it)}})

\* the (name, expr) pairs of a type or an instance, evaluated in order into
\* the map acc
eval_fields(fields, acc, it) ==
    IF fields = <<>> THEN Ok(acc, it)
    ELSE Only({IF r.k # "Ok" THEN r ELSE
               eval_fields(Tail(fields), Insert(acc, fields[1][1], r.v), r.it)
               : r \in {eval_expr(fields[1][2], it)}})

\* a while loop that `break` leaves and `continue` takes round again
jumping_while(stmt, it) ==
    Only({IF c.k # "Ok" THEN c ELSE
          IF ~is_truthy(c.v) THEN Ok(Null, c.it)
          ELSE IF c.it.fuel = 0 THEN OutOfBound(c.it)
          ELSE Only({IF b.k = "Message" /\ b.v = "Break not implemented" THEN Ok(Null, b.it)
                     ELSE IF b.k = "Message" /\ b.v = "Continue not implemented"
                     THEN while_loop(stmt, b.it)
                     ELSE IF b.k # "Ok" THEN b
                     ELSE while_loop(stmt, b.it)
                     : b \in {eval_block(stmt.body, [c.it EXCEPT !.fuel = @ - 1])}})
          : c \in {eval_expr(stmt.condition, it)}})

\* Stmt::While (runtime.rs 190-195)
while_loop(stmt, it) ==
    Only({IF c.k # "Ok" THEN c ELSE
          IF ~is_truthy(c.v) THEN Ok(Null, c.it)
          ELSE IF c.it.fuel = 0 THEN OutOfBound(c.it)
          ELSE Only({IF b.k # "Ok" THEN b ELSE
                     while_loop(stmt, b.it)
                     : b \in {eval_block(stmt.body, [c.it EXCEPT !.fuel = @ - 1])}})
          : c \in {eval_expr(stmt.condition, it)}})

\* Stmt::For, the loop over start..end (runtime.rs 200-204)
for_loop(stmt, i, end, it) ==
    IF i >= end THEN Ok(Null, it)
    ELSE Only({IF b.k # "Ok" THEN b ELSE
               for_loop(stmt, i + 1, end, b.it)
               : b \in {eval_block(stmt.body,
                        [it EXCEPT !.env = EnvSet(@, stmt.var, Number(Whole(i)))])}})

\* Stmt::PrintArgs, the loop over the arguments (runtime.rs 221-225)
print_args(args, vals, it) ==
    IF args = <<>> THEN Ok(vals, it)
    ELSE Only({IF r.k # "Ok" THEN r ELSE
               print_args(Tail(args), Append(vals, value_to_string(r.v)), r.it)
               : r \in {eval_expr(args[1], it)}})

\* Interpreter::eval_stmt (runtime.rs 151-261)
eval_stmt(stmt, it) ==
    CASE stmt.s = "Expr" -> eval_expr(stmt.expr, it)
      [] stmt.s = "Let" ->
           Only({IF r.k # "Ok" THEN r ELSE
                 Ok(Null, [r.it EXCEPT !.env = EnvSet(@, stmt.name, r.v)])
                 : r \in {eval_expr(stmt.expr, it)}})
      [] stmt.s = "Function" ->
           Ok(Null, [it EXCEPT !.env = EnvSet(@, stmt.name, Function(stmt.params, stmt.body))])
      [] stmt.s = "Return" ->
           IF stmt.value = <<>> THEN ErrReturn(Null, it)
           ELSE Only({IF r.k # "Ok" THEN r ELSE
                      ErrReturn(r.v, r.it)
                      : r \in {eval_expr(stmt.value[1], it)}})
      [] stmt.s = "If" ->
           Only({IF c.k # "Ok" THEN c ELSE
                 IF is_truthy(c.v) THEN eval_block(stmt.then_branch, c.it)
                 ELSE IF stmt.else_branch # <<>> THEN eval_block(stmt.else_branch[1], c.it)
                 ELSE Ok(Null, c.it)
                 : c \in {eval_expr(stmt.condition, it)}})
      [] stmt.s = "While" -> while_loop(stmt, it)
      [] stmt.s = "For" ->
           Only({IF s.k # "Ok" THEN s ELSE
                 Only({IF e.k # "Ok" THEN e ELSE
                       for_loop(stmt, for_start(s.v), for_end(e.v), e.it)
                       : e \in {eval_expr(stmt.end, s.it)}})
                 : s \in {eval_expr(stmt.start, it)}})
      [] stmt.s = "Import" -> Ok(Null, it)
      [] stmt.s = "Block" -> eval_block(stmt.stmts, it)
      [] stmt.s = "Break" -> ErrMessage("Break not implemented", it)
      [] stmt.s = "Continue" -> ErrMessage("Continue not implemented", it)
      [] stmt.s = "Print" ->
           Only({IF r.k # "Ok" THEN r ELSE
                 Ok(Null, [r.it EXCEPT !.out = Append(@, value_to_string(r.v))])
                 : r \in {eval_expr(stmt.expr, it)}})
      [] stmt.s = "PrintArgs" ->
           Only({IF r.k # "Ok" THEN r ELSE
                 Ok(Null, [r.it EXCEPT !.out = Append(@, join(r.v, <<" ">>))])
                 : r \in {print_args(stmt.args, <<>>, it)}})
      [] stmt.s = "Type" ->
           Only({IF f.k # "Ok" THEN f ELSE
                 Ok(Null, [f.it EXCEPT !.env =
                 EnvSet(@, stmt.name, Type(stmt.name, f.v, methods_map(stmt.methods)))])
                 : f \in {eval_fields(stmt.fields, NoVars, it)}})
      [] OTHER -> ErrMessage("Not yet implemented", it)

\* Expr::Call once the callee and the arguments are evaluated (runtime.rs
\* 302-364): the native handlers, the arity check, the body in the call's
\* frame, the Return marker intercepted, the caller's environment put back
call_function(func, function, args, it) ==
    LET native == native_call(func, function, args, it)
    IN  IF native # <<>> THEN native[1]
        ELSE IF arity_mismatch(func, args) THEN ErrMessage("Argument count mismatch", it)
        ELSE IF it.fuel = 0 THEN OutOfBound(it)
        ELSE restore_env(
                 intercept_return(
                     eval_body(func.body,
                               [it EXCEPT !.env = call_env(it.env, func, args),
                                          !.fuel = @ - 1])),
                 it.env)

\* a call that intercepts `list.push(item)` and yields the list with the item
eval_call_bound(expr, it) ==
    Only({IF c.k # "Ok" THEN c ELSE
          Only({IF a.k # "Ok" THEN a ELSE
                IF c.v.t # "Function" THEN ErrMessage("Can only call functions!", a.it)
                ELSE IF /\ expr.function.e = "FieldAccess"
                        /\ c.v = Function(<<"item">>, <<>>)
                        /\ Len(a.v) = 1
                THEN Ok(List(Append(eval_expr(expr.function.object, it).v.items, a.v[1])), a.it)
                ELSE call_function(c.v, expr.function, a.v, a.it)
                : a \in {eval_exprs(expr.arguments, <<>>, c.it)}})
          : c \in {eval_expr(expr.function, it)}})

\* Expr::Call (runtime.rs 295-367)
eval_call(expr, it) ==
    Only({IF c.k # "Ok" THEN c ELSE
          Only({IF a.k # "Ok" THEN a ELSE
                IF c.v.t # "Function" THEN ErrMessage("Can only call functions!", a.it)
                ELSE call_function(c.v, expr.function, a.v, a.it)
                : a \in {eval_exprs(expr.arguments, <<>>, c.it)}})
          : c \in {eval_expr(expr.function, it)}})

\* an assignment that yields the value and leaves the binding as it was
stale_assign(name, r) == Ok(r.v, r.it)

\* Expr::Assign once the value is evaluated (runtime.rs 276-280)
assign_value(name, r) ==
    LET a == EnvAssign(r.it.env, name, r.v)
    IN  IF a.ok THEN Ok(r.v, [r.it EXCEPT !.env = a.env])
        ELSE ErrMessage("Undefined variable '" \o name \o "'", r.it)

\* a Binary arm whose `&&` and `||` leave the right operand alone when the left
\* one decides
short_circuit(expr, it) ==
    Only({IF l.k # "Ok" THEN l
          ELSE IF expr.op = "And" /\ l.v = Bool(FALSE) THEN l
          ELSE IF expr.op = "Or" /\ l.v = Bool(TRUE) THEN l
          ELSE Only({IF r.k # "Ok" THEN r ELSE
                     with_it(eval_binary(expr.op, l.v, r.v), r.it)
                     : r \in {eval_expr(expr.right, l.it)}})
          : l \in {eval_expr(expr.left, it)}})

\* the Binary arm of eval_expr (runtime.rs 290-294): `let l = self.eval_expr(left)?;
\* let r = self.eval_expr(right)?; eval_binary(*op, l, r)`
eval_operands(expr, it) ==
    Only({IF l.k # "Ok" THEN l ELSE
          Only({IF r.k # "Ok" THEN r ELSE
                with_it(eval_binary(expr.op, l.v, r.v), r.it)
                : r \in {eval_expr(expr.right, l.it)}})
          : l \in {eval_expr(expr.left, it)}})

\* Interpreter::eval_expr (runtime.rs 264-431)
eval_expr(expr, it) ==
    CASE expr.e = "Number" -> Ok(Number(expr.n), it)
      [] expr.e = "Bool" -> Ok(Bool(expr.b), it)
      [] expr.e = "String" -> Ok(String(expr.s), it)
      [] expr.e = "Variable" ->
           LET v == EnvGet(it.env, expr.name)
           IN  IF v # <<>> THEN Ok(v[1], it)
               ELSE ErrMessage("Undefined variable '" \o expr.name \o "'", it)
      [] expr.e = "Assign" ->
           Only({IF r.k # "Ok" THEN r ELSE
                 assign_value(expr.name, r)
                 : r \in {eval_expr(expr.expr, it)}})
      [] expr.e = "Block" -> eval_block(expr.stmts, it)
      [] expr.e = "Unary" ->
           Only({IF r.k # "Ok" THEN r ELSE
                 IF expr.op = "Neg"
                 THEN (IF get_num(r.v) = 0 THEN OutOfBound(r.it)
                       ELSE Ok(Number(-get_num(r.v)), r.it))
                 ELSE IF expr.op = "Not" THEN Ok(Bool(~is_truthy(r.v)), r.it)
                 ELSE OutOfBound(r.it)
                 : r \in {eval_expr(expr.expr, it)}})
      [] expr.e = "Binary" -> eval_operands(expr, it)
      [] expr.e = "Call" -> eval_call(expr, it)
      [] expr.e = "List" ->
           Only({IF r.k # "Ok" THEN r ELSE
                 Ok(List(r.v), r.it)
                 : r \in {eval_exprs(expr.elements, <<>>, it)}})
      [] expr.e = "Instance" ->
           LET ty == EnvGet(it.env, expr.type_name)
           IN  IF ty = <<>> THEN ErrMessage("Unknown type '" \o expr.type_name \o "'", it)
               ELSE IF ty[1].t # "Type"
               THEN ErrMessage("'" \o expr.type_name \o "' is not a type", it)
               ELSE Only({IF f.k # "Ok" THEN f ELSE
                          Ok(Instance(ty[1], f.v), f.it)
                          : f \in {eval_fields(expr.fields, ty[1].fields, it)}})
      [] expr.e = "FieldAccess" ->
           Only({IF o.k # "Ok" THEN o ELSE
                 field_access(o.v, expr.field, o.it)
                 : o \in {eval_expr(expr.object, it)}})
      [] OTHER -> ErrMessage("Not yet implemented", it)


(***************************************************************************)
(* The tokenizer (lexer.rs).  A Lexer is [chars, pos, line, col]: the      *)
(* text, the index of `current` in it (past the end when current is None), *)
(* and the position.  `peeked` caches `current` and is dropped by every    *)
(* advance, the one place where current changes: peek() is current.        *)
(* A token is [kind, line, col], its kind a record [k, ...]; next_token    *)
(* returns [k |-> "Ok", tok, lx], [k |-> "Err", err, lx] for a LexError,   *)
(* or [k |-> "Bound", lx] for a numeral that is no number of halves.       *)
(***************************************************************************)
\* Lexer::new (lexer.rs 80-90)
LexerNew(text) == [chars |-> text, pos |-> 1, line |-> 1, col |-> 0]

\* Lexer::peek (lexer.rs 109-117)
peek(lx) == IF lx.pos <= Len(lx.chars) THEN <<lx.chars[lx.pos]>> ELSE <<>>

\* Lexer::advance (lexer.rs 93-106)
lexer_advance(lx) ==
    IF peek(lx) = <<>> THEN lx
    ELSE IF peek(lx) = <<"\n">>
    THEN [lx EXCEPT !.pos = @ + 1, !.line = @ + 1, !.col = 0]
    ELSE [lx EXCEPT !.pos = @ + 1, !.col = @ + 1]

Token(kind, line, col) == [kind |-> kind, line |-> line, col |-> col]
LexError(message, line, col) == [message |-> message, line |-> line, col |-> col]
OkToken(kind, line, col, lx) == [k |-> "Ok", tok |-> Token(kind, line, col), lx |-> lx]
ErrToken(message, line, col, lx) == [k |-> "Err", err |-> LexError(message, line, col), lx |-> lx]

\* Lexer::single (lexer.rs 260-262)
single(lx, kind) == OkToken([k |-> kind], lx.line, lx.col, lx)

\* the string of a sequence of characters
RECURSIVE Join(_)
Join(cs) == IF cs = <<>> THEN "" ELSE cs[1] \o Join(Tail(cs))

\* the characters the loops of the tokenizer advance over: those of a numeral
\* (lexer.rs 268), of a word (lexer.rs 287) and of a line comment (lexer.rs
\* 187-190, 237-240)
keeps(loop, c) ==
    CASE loop = "number" -> is_ascii_digit(c) \/ c = "."
      [] loop = "identifier" -> is_ascii_alphabetic(c) \/ is_ascii_digit(c) \/ c = "_"
      [] loop = "comment" -> c # "\n"

\* `while let Some(c) = self.peek() { if <keeps c> { self.advance(); } else
\* { break; } }`: the lexer after advancing over the longest run of characters
\* the loop keeps, none of them a newline: each advance adds one to col
skip_while(lx, loop) ==
    Only({[lx EXCEPT !.pos = end, !.col = @ + (end - lx.pos)]
          : end \in {CHOOSE i \in lx.pos..(Len(lx.chars) + 1) :
                        /\ i <= Len(lx.chars) => ~keeps(loop, lx.chars[i])
                        /\ \A j \in lx.pos..(i - 1) : keeps(loop, lx.chars[j])}})

\* `' ' | '\t' | '\r' | '\n' => { self.advance(); continue; }` (lexer.rs 123-128):
\* the lexer after advancing over the run of blanks it stands on; each newline
\* of the run adds one to line and sets col to 0, each other blank adds one to
\* col (lexer.rs 93-106)
skip_blanks(lx) ==
    LET end == CHOOSE i \in lx.pos..(Len(lx.chars) + 1) :
                   /\ i <= Len(lx.chars) => lx.chars[i] \notin {" ", "\t", "\r", "\n"}
                   /\ \A j \in lx.pos..(i - 1) : lx.chars[j] \in {" ", "\t", "\r", "\n"}
        newlines == {j \in lx.pos..(end - 1) : lx.chars[j] = "\n"}
        last == CHOOSE j \in newlines : \A k \in newlines : k <= j
    IN  [lx EXCEPT !.pos = end,
                   !.line = @ + Cardinality(newlines),
                   !.col = IF newlines = {} THEN @ + (end - lx.pos) ELSE end - 1 - last]

\* Lexer::number (lexer.rs 264-281)
number(lx) ==
    Only({Only({Only({IF value.k = "Ok"
                      THEN OkToken([k |-> "Number", n |-> value.n], after.line, lx.col, after)
                      ELSE IF value.k = "Bound" THEN [k |-> "Bound", lx |-> after]
                      ELSE ErrToken("Invalid number literal '" \o Join(num) \o "'",
                                    after.line, lx.col, after)
                      : value \in {parse_f64(num)}})
                : num \in {SubSeq(lx.chars, lx.pos, after.pos - 1)}})
          : after \in {skip_while(lx, "number")}})

Keywords ==
    {"true", "false", "let", "fn", "return", "if", "else", "while", "for", "in",
     "import", "print", "type", "const", "match", "as", "pub", "mod", "struct",
     "enum", "break", "continue", "yield"}

\* Lexer::identifier (lexer.rs 283-319); a keyword's kind is the keyword
\* capitalised
identifier(lx) ==
    Only({Only({OkToken(IF Join(word) \in Keywords
                        THEN [k |-> Join(to_uppercase(<<word[1]>>) \o Tail(word))]
                        ELSE [k |-> "Identifier", name |-> Join(word)],
                        after.line, lx.col, after)
                : word \in {SubSeq(lx.chars, lx.pos, after.pos - 1)}})
          : after \in {skip_while(lx, "identifier")}})

\* the character an escape `\o` stands for (lexer.rs 332-338)
escaped(o) ==
    CASE o = "n" -> "\n"
      [] o = "r" -> "\r"
      [] o = "t" -> "\t"
      [] OTHER -> o

\* Lexer::string, the loop after the opening quote (lexer.rs 326-352)
RECURSIVE string_loop(_, _, _)
string_loop(lx, str, start_col) ==
    IF peek(lx) = <<>> THEN ErrToken("Unterminated string literal", lx.line, start_col, lx)
    ELSE Only({IF peek(lx) = <<"\"">>
               THEN OkToken([k |-> "String", s |-> str], l1.line, start_col, l1)
               ELSE IF peek(lx) = <<"\\">>
               THEN IF peek(l1) = <<>>
                    THEN ErrToken("Unterminated string literal", l1.line, start_col, l1)
                    ELSE string_loop(lexer_advance(l1), Append(str, escaped(peek(l1)[1])),
                                     start_col)
               ELSE string_loop(l1, Append(str, peek(lx)[1]), start_col)
               : l1 \in {lexer_advance(lx)}})

\* a string whose error leaves the lexer just after the opening quote
string_rewinds(lx) ==
    Only({IF r.k = "Err" THEN [r EXCEPT !.lx = lexer_advance(lx)] ELSE r
          : r \in {string_loop(lexer_advance(lx), <<>>, lx.col)}})

\* Lexer::string (lexer.rs 321-353)
string(lx) == string_loop(lexer_advance(lx), <<>>, lx.col)

\* a character followed by `second` is the two-character token, else the
\* one-character token (lexer.rs 140-178, 197-205)
one_or_two(lx, second, two, one) ==
    Only({IF peek(l1) = <<second>> THEN single(lexer_advance(l1), two) ELSE single(l1, one)
          : l1 \in {lexer_advance(lx)}})

\* `&` and `|` count only doubled (lexer.rs 207-233)
doubled(lx, ch, two) ==
    Only({IF peek(l1) = <<ch>> THEN single(lexer_advance(l1), two)
          ELSE ErrToken("Unexpected character '" \o ch \o "' (did you mean '" \o ch \o ch
                            \o "'?)",
                        l1.line, l1.col, l1)
          : l1 \in {lexer_advance(lx)}})

SingleChars ==
    [c \in {"(", ")", "{", "}", ",", ";", "+", "-", "*"} |->
        CASE c = "(" -> "LParen" [] c = ")" -> "RParen" [] c = "{" -> "LBrace"
          [] c = "}" -> "RBrace" [] c = "," -> "Comma" [] c = ";" -> "Semicolon"
          [] c = "+" -> "Plus" [] c = "-" -> "Minus" [] c = "*" -> "Star"]

\* Lexer::next_token (lexer.rs 119-258)
RECURSIVE next_token(_)
next_token(lx) ==
    IF peek(lx) = <<>> THEN OkToken([k |-> "Eof"], lx.line, lx.col, lx)
    ELSE Only({CASE ch \in {" ", "\t", "\r", "\n"} -> next_token(skip_blanks(lx))
                 [] is_ascii_digit(ch) -> number(lx)
                 [] is_ascii_alphabetic(ch) \/ ch = "_" -> identifier(lx)
                 [] ch = "\"" -> string(lx)
                 [] ch \in DOMAIN SingleChars -> single(l1, SingleChars[ch])
                 [] ch = "=" -> one_or_two(lx, "=", "EqEq", "Assign")
                 [] ch = "!" -> one_or_two(lx, "=", "BangEq", "Bang")
                 [] ch = "<" -> one_or_two(lx, "=", "Lte", "Lt")
                 [] ch = ">" -> one_or_two(lx, "=", "Gte", "Gt")
                 [] ch = "/" -> IF peek(l1) = <<"/">> THEN next_token(skip_while(l1, "comment"))
                                ELSE single(l1, "Slash")
                 [] ch = "." -> one_or_two(lx, ".", "DotDot", "Dot")
                 [] ch = "&" -> doubled(lx, "&", "And")
                 [] ch = "|" -> doubled(lx, "|", "Or")
                 [] ch = "#" -> next_token(skip_while(lx, "comment"))
                 [] OTHER -> ErrToken("Unexpected character '" \o ch \o "'",
                                      l1.line, l1.col, l1)
               : ch \in {peek(lx)[1]}, l1 \in {lexer_advance(lx)}})

(***************************************************************************)
(* The parser (parser.rs).  A Parser is [lexer, curr].  A parse function   *)
(* returns [ok |-> TRUE, v, p] (its node and the parser after it) or       *)
(* [ok |-> FALSE, err, p], err a ParseError [kind, message, line, col].    *)
(* The Debug text of a token inside a message is its kind's variant name.  *)
(* The kinds Colon, Native, Pow, LBracket, RBracket and Lambda that the    *)
(* parser matches on are produced by no arm of next_token.                 *)
(***************************************************************************)
\* parser.rs 210, 816: the longest function body accepted, in lines
MaxFunctionLines == 64

ParseError(kind, message, line, col) ==
    [kind |-> kind, message |-> message, line |-> line, col |-> col]
POk(v, p) == [ok |-> TRUE, v |-> v, p |-> p]
PErr(err, p) == [ok |-> FALSE, err |-> err, p |-> p]

\* the token a Result<Token, LexError> becomes (parser.rs 33-37, 43-52)
token_or_error(r) ==
    CASE r.k = "Ok" -> r.tok
      [] r.k = "Err" -> Token([k |-> "Error", message |-> r.err.message], r.err.line, r.err.col)
      [] OTHER -> Token([k |-> "Bound"], r.lx.line, r.lx.col)

\* Parser::new (parser.rs 31-39)
ParserNew(text) ==
    Only({[lexer |-> r.lx, curr |-> token_or_error(r)]
          : r \in {next_token(LexerNew(text))}})

\* an advance that drops a tokenizer error and takes the token after it
skip_error(p) ==
    Only({IF r.k # "Err" THEN [lexer |-> r.lx, curr |-> token_or_error(r)]
          ELSE Only({[lexer |-> n.lx, curr |-> token_or_error(n)] : n \in {next_token(r.lx)}})
          : r \in {next_token(p.lexer)}})

\* Parser::advance (parser.rs 42-53)
parser_advance(p) ==
    Only({[lexer |-> r.lx, curr |-> token_or_error(r)]
          : r \in {next_token(p.lexer)}})

curr_is(p, kind) == p.curr.kind.k = kind

\* Parser::expect (parser.rs 56-68)
expect(p, kind) ==
    IF curr_is(p, kind) THEN POk(TRUE, parser_advance(p))
    ELSE PErr(ParseError("UnexpectedToken",
                         "Expected " \o kind \o ", found " \o p.curr.kind.k,
                         p.curr.line, p.curr.col), p)

\* Parser::unexpected (parser.rs 71-81)
unexpected(p, context, expected) ==
    ParseError("UnexpectedToken",
               "Erreur de syntaxe " \o context \o " : attendu " \o expected
                   \o ", trouve " \o p.curr.kind.k,
               p.curr.line, p.curr.col)

\* the error of the arms that report the current token (parser.rs 270-275,
\* 292-297, 668-681, 698-703)
token_inattendu(p) ==
    ParseError("UnexpectedToken", "Token inattendu : " \o p.curr.kind.k,
               p.curr.line, p.curr.col)

\* `if self.curr.kind == TokenKind::X { self.advance(); }`
skip_optional(p, kind) == IF curr_is(p, kind) THEN parser_advance(p) ELSE p

EDict(entries) == [e |-> "Dict", entries |-> entries]
ETuple(elements) == [e |-> "Tuple", elements |-> elements]
EIndex(collection, index) == [e |-> "Index", collection |-> collection, index |-> index]
SNativeFunction(name, params, body) ==
    [s |-> "NativeFunction", name |-> name, params |-> params, body |-> body]

\* a ladder whose term level takes `*` and `/` and whose factor level takes
\* `+` and `-`: sums binding tighter than products
sums_bind_tighter(level) ==
    CASE level = "parse_logic_or" -> [Or |-> "Or"]
      [] level = "parse_logic_and" -> [And |-> "And"]
      [] level = "parse_equality" -> [EqEq |-> "Eq", BangEq |-> "Neq"]
      [] level = "parse_comparison" -> [Lt |-> "Lt", Lte |-> "Lte", Gt |-> "Gt", Gte |-> "Gte"]
      [] level = "parse_term" -> [Star |-> "Mul", Slash |-> "Div"]
      [] level = "parse_factor" -> [Plus |-> "Add", Minus |-> "Sub"]
      [] level = "parse_power" -> [Pow |-> "Pow"]

\* the operators of a level of the expression ladder, by token kind
\* (parser.rs 388, 403, 418-423, 438-445, 460-465, 480-485, 500)
level_ops(level) ==
    CASE level = "parse_logic_or" -> [Or |-> "Or"]
      [] level = "parse_logic_and" -> [And |-> "And"]
      [] level = "parse_equality" -> [EqEq |-> "Eq", BangEq |-> "Neq"]
      [] level = "parse_comparison" -> [Lt |-> "Lt", Lte |-> "Lte", Gt |-> "Gt", Gte |-> "Gte"]
      [] level = "parse_term" -> [Plus |-> "Add", Minus |-> "Sub"]
      [] level = "parse_factor" -> [Star |-> "Mul", Slash |-> "Div"]
      [] level = "parse_power" -> [Pow |-> "Pow"]

\* the error of a parameter list (parser.rs 187-191, 667-681, 793-797)
param_error(p, who, expected) ==
    CASE who = "function" -> unexpected(p, "dans la liste des parametres", expected)
      [] who = "native" ->
           unexpected(p, "dans la liste des parametres de la fonction native", expected)
      [] OTHER -> token_inattendu(p)

\* the parameter loop of parse_function, parse_native_function and the Lambda
\* arm (parser.rs 181-193, 661-683, 787-799)
RECURSIVE parse_params(_, _, _)
parse_params(p, params, who) ==
    IF curr_is(p, "RParen") THEN POk(params, p)
    ELSE IF ~curr_is(p, "Identifier") THEN PErr(param_error(p, who, "un identifiant"), p)
    ELSE Only({IF curr_is(p1, "Comma")
               THEN parse_params(parser_advance(p1), Append(params, p.curr.kind.name), who)
               ELSE IF ~curr_is(p1, "RParen")
               THEN PErr(param_error(p1, who, "une virgule ou une parenthese fermante"), p1)
               ELSE parse_params(p1, Append(params, p.curr.kind.name), who)
               : p1 \in {parser_advance(p)}})

\* the Custom error of a body of more than MaxFunctionLines lines
\* (parser.rs 210-217, 816-823)
too_long(p, label, name, start_line, span) ==
    ParseError("Custom",
               label \o " '" \o name \o "' exceeds 64 lines (" \o Join(NatToChars(span))
                   \o " lines)",
               start_line, p.curr.col)

RECURSIVE Parser(_, _)

\* the calls `self.parse_stmt()`, `self.parse_expr()`, .. of the parser's
\* methods on one another, and of the loops they contain
self_parse_stmt(a1) == Parser("parse_stmt", <<a1>>)
self_parse_stmts(a1, a2, a3) == Parser("parse_stmts", <<a1, a2, a3>>)
self_parse_block(a1) == Parser("parse_block", <<a1>>)
self_parse_expr(a1) == Parser("parse_expr", <<a1>>)
self_parse_function(a1) == Parser("parse_function", <<a1>>)
self_parse_native_function(a1) == Parser("parse_native_function", <<a1>>)
self_parse_if(a1) == Parser("parse_if", <<a1>>)
self_function_rest(a1, a2, a3) == Parser("function_rest", <<a1, a2, a3>>)
self_parse_type_body(a1, a2, a3) == Parser("parse_type_body", <<a1, a2, a3>>)
self_parse_assignment(a1) == Parser("parse_assignment", <<a1>>)
self_binary_loop(a1, a2, a3) == Parser("binary_loop", <<a1, a2, a3>>)
self_parse_unary(a1) == Parser("parse_unary", <<a1>>)
self_postfix_loop(a1, a2) == Parser("postfix_loop", <<a1, a2>>)
self_parse_exprs(a1, a2) == Parser("parse_exprs", <<a1, a2>>)
self_parse_entries(a1, a2) == Parser("parse_entries", <<a1, a2>>)


\* `while curr is none of stop { stmts.push(self.self_parse_stmt()?); }`
\* (parser.rs 101-103, 204-206, 348-350, 688-690, 810-812)
parse_stmts(p, acc, stop) ==
    IF p.curr.kind.k \in stop THEN POk(acc, p)
    ELSE Only({IF ~r.ok THEN r ELSE
               self_parse_stmts(r.p, Append(acc, r.v), stop)
               : r \in {self_parse_stmt(p)}})

\* a parse that returns after its first statement
first_only(p) ==
    IF curr_is(p, "Eof") THEN POk(<<>>, p)
    ELSE Only({IF ~r.ok THEN r ELSE POk(<<r.v>>, r.p) : r \in {self_parse_stmt(p)}})

\* Parser::parse (parser.rs 99-105)
parse(p) == self_parse_stmts(p, <<>>, {"Eof"})

\* Parser::parse_block (parser.rs 345-353)
parse_block(p) ==
    Only({IF ~open.ok THEN open ELSE
          Only({IF ~body.ok THEN body ELSE
                Only({IF ~close.ok THEN close ELSE
                      POk(body.v, close.p)
                      : close \in {expect(body.p, "RBrace")}})
                : body \in {self_parse_stmts(open.p, <<>>, {"RBrace", "Eof"})}})
          : open \in {expect(p, "LBrace")}})

\* Parser::parse_block_stmt (parser.rs 340-342)
parse_block_stmt(p) == Only({IF ~r.ok THEN r ELSE
                             POk(SBlock(r.v), r.p)
                             : r \in {self_parse_block(p)}})

\* Parser::parse_let (parser.rs 142-161)
parse_let(p) ==
    Only({IF ~kw.ok THEN kw ELSE
          IF ~curr_is(kw.p, "Identifier")
              THEN PErr(unexpected(kw.p, "dans la declaration de variable", "un identifiant"), kw.p)
              ELSE
          Only({IF ~eq.ok THEN eq ELSE
                Only({IF ~expr.ok THEN expr ELSE
                      POk(SLet(kw.p.curr.kind.name, expr.v), skip_optional(expr.p, "Semicolon"))
                      : expr \in {self_parse_expr(eq.p)}})
                : eq \in {expect(skip_optional(parser_advance(kw.p), "Colon"), "Assign")}})
          : kw \in {expect(p, "Let")}})

\* Parser::parse_const (parser.rs 752-766)
parse_const(p) ==
    Only({IF ~kw.ok THEN kw ELSE
          IF ~curr_is(kw.p, "Identifier")
              THEN PErr(unexpected(kw.p, "dans la declaration de constante", "un identifiant"), kw.p)
              ELSE
          Only({IF ~eq.ok THEN eq ELSE
                Only({IF ~expr.ok THEN expr ELSE
                      POk(SConst(kw.p.curr.kind.name, expr.v), skip_optional(expr.p, "Semicolon"))
                      : expr \in {self_parse_expr(eq.p)}})
                : eq \in {expect(parser_advance(kw.p), "Assign")}})
          : kw \in {expect(p, "Const")}})

\* the end of parse_function and of parse_native_function (parser.rs 208-219,
\* 814-825): p is the parser after the closing brace
function_end(p, who, label, name, params, body, start_line) ==
    IF p.curr.line - start_line > MaxFunctionLines
    THEN PErr(too_long(p, label, name, start_line, p.curr.line - start_line), p)
    ELSE POk(IF who = "native" THEN SNativeFunction(name, params, body)
             ELSE SFunction(name, params, body), p)

\* parse_function from the function's name on (parser.rs 166-219), and
\* parse_native_function likewise (parser.rs 772-825)
function_rest(p, who, label) ==
    IF ~curr_is(p, "Identifier")
    THEN PErr(ParseError("UnexpectedToken",
                         IF who = "native" THEN "Expected native function name"
                         ELSE "Expected function name",
                         p.curr.line, p.curr.col), p)
    ELSE
    Only({IF ~lp.ok THEN lp ELSE
          Only({IF ~params.ok THEN params ELSE
                Only({IF ~rp.ok THEN rp ELSE
                      Only({IF ~open.ok THEN open ELSE
                            Only({IF ~body.ok THEN body ELSE
                                  Only({IF ~close.ok THEN close ELSE
                                        function_end(close.p, who, label, p.curr.kind.name, params.v, body.v,
                                        open.p.curr.line)
                                        : close \in {expect(body.p, "RBrace")}})
                                  : body \in {self_parse_stmts(open.p, <<>>, {"RBrace", "Eof"})}})
                            : open \in {expect(skip_optional(rp.p, "Colon"), "LBrace")}})
                      : rp \in {expect(params.p, "RParen")}})
                : params \in {parse_params(lp.p, <<>>, who)}})
          : lp \in {expect(parser_advance(p), "LParen")}})

\* Parser::parse_function (parser.rs 164-220)
parse_function(p) ==
    Only({IF ~kw.ok THEN kw ELSE
          self_function_rest(kw.p, "function", "Function")
          : kw \in {expect(p, "Fn")}})

\* Parser::parse_native_function (parser.rs 769-826)
parse_native_function(p) ==
    Only({IF ~native.ok THEN native ELSE
          Only({IF ~kw.ok THEN kw ELSE
                self_function_rest(kw.p, "native", "Native function")
                : kw \in {expect(native.p, "Fn")}})
          : native \in {expect(p, "Native")}})

\* Parser::parse_return (parser.rs 223-234)
parse_return(p) ==
    Only({IF ~kw.ok THEN kw ELSE
          IF curr_is(kw.p, "Semicolon") THEN POk(SReturn(<<>>), parser_advance(kw.p))
          ELSE Only({IF ~expr.ok THEN expr ELSE
                     POk(SReturn(<<expr.v>>), skip_optional(expr.p, "Semicolon"))
                     : expr \in {self_parse_expr(kw.p)}})
          : kw \in {expect(p, "Return")}})

\* the else of parse_if (parser.rs 241-249): p1 is the parser after `else`
parse_else(condition, then_branch, p1) ==
    IF curr_is(p1, "If")
    THEN Only({IF ~nested.ok THEN nested ELSE
               POk(SIf(condition, then_branch, << <<nested.v>> >>), nested.p)
               : nested \in {self_parse_if(p1)}})
    ELSE Only({IF ~else_block.ok THEN else_block ELSE
               POk(SIf(condition, then_branch, <<else_block.v>>), else_block.p)
               : else_block \in {self_parse_block(p1)}})

\* Parser::parse_if (parser.rs 237-254)
parse_if(p) ==
    Only({IF ~kw.ok THEN kw ELSE
          Only({IF ~condition.ok THEN condition ELSE
                Only({IF ~then_branch.ok THEN then_branch ELSE
                      IF ~curr_is(then_branch.p, "Else")
                      THEN POk(SIf(condition.v, then_branch.v, <<>>), then_branch.p)
                      ELSE parse_else(condition.v, then_branch.v, parser_advance(then_branch.p))
                      : then_branch \in {self_parse_block(condition.p)}})
                : condition \in {self_parse_expr(kw.p)}})
          : kw \in {expect(p, "If")}})

\* Parser::parse_while (parser.rs 257-262)
parse_while(p) ==
    Only({IF ~kw.ok THEN kw ELSE
          Only({IF ~condition.ok THEN condition ELSE
                Only({IF ~body.ok THEN body ELSE
                      POk(SWhile(condition.v, body.v), body.p)
                      : body \in {self_parse_block(condition.p)}})
                : condition \in {self_parse_expr(kw.p)}})
          : kw \in {expect(p, "While")}})

\* Parser::parse_for (parser.rs 265-284)
parse_for(p) ==
    Only({IF ~kw.ok THEN kw ELSE
          IF ~curr_is(kw.p, "Identifier") THEN PErr(token_inattendu(kw.p), kw.p)
              ELSE
          Only({IF ~in.ok THEN in ELSE
                Only({IF ~start.ok THEN start ELSE
                      Only({IF ~dots.ok THEN dots ELSE
                            Only({IF ~end.ok THEN end ELSE
                                  Only({IF ~body.ok THEN body ELSE
                                        POk(SFor(kw.p.curr.kind.name, start.v, end.v, body.v), body.p)
                                        : body \in {self_parse_block(end.p)}})
                                  : end \in {self_parse_expr(dots.p)}})
                            : dots \in {expect(start.p, "DotDot")}})
                      : start \in {self_parse_expr(in.p)}})
                : in \in {expect(parser_advance(kw.p), "In")}})
          : kw \in {expect(p, "For")}})

\* Parser::parse_import (parser.rs 287-304)
parse_import(p) ==
    Only({IF ~kw.ok THEN kw ELSE
          IF ~curr_is(kw.p, "String") THEN PErr(token_inattendu(kw.p), kw.p)
          ELSE POk(SImport(kw.p.curr.kind.s),
                   skip_optional(parser_advance(kw.p), "Semicolon"))
          : kw \in {expect(p, "Import")}})

\* Parser::parse_break (parser.rs 307-313)
parse_break(p) ==
    Only({IF ~kw.ok THEN kw ELSE
          POk(SBreak, skip_optional(kw.p, "Semicolon"))
          : kw \in {expect(p, "Break")}})

\* Parser::parse_continue (parser.rs 316-322)
parse_continue(p) ==
    Only({IF ~kw.ok THEN kw ELSE
          POk(SContinue, skip_optional(kw.p, "Semicolon"))
          : kw \in {expect(p, "Continue")}})

\* `push(self_parse_expr()?); while curr is Comma { advance; push(self_parse_expr()?); }`
\* (parser.rs 328-332, 541-545, 611-615, 646-649)
parse_exprs(p, acc) ==
    Only({IF ~r.ok THEN r ELSE
          IF curr_is(r.p, "Comma") THEN self_parse_exprs(parser_advance(r.p), Append(acc, r.v))
          ELSE POk(Append(acc, r.v), r.p)
          : r \in {self_parse_expr(p)}})

\* Parser::parse_print (parser.rs 325-337)
parse_print(p) ==
    Only({IF ~kw.ok THEN kw ELSE
          Only({IF ~args.ok THEN args ELSE
                POk(SPrintArgs(args.v), skip_optional(args.p, "Semicolon"))
                : args \in {self_parse_exprs(kw.p, <<>>)}})
          : kw \in {expect(p, "Print")}})

\* the loop of parse_type (parser.rs 726-746)
parse_type_body(p, fields, methods) ==
    IF p.curr.kind.k \in {"RBrace", "Eof"} THEN POk([fields |-> fields, methods |-> methods], p)
    ELSE IF curr_is(p, "Fn")
    THEN Only({IF ~m.ok THEN m ELSE
               self_parse_type_body(m.p, fields, Append(methods, m.v))
               : m \in {self_parse_function(p)}})
    ELSE IF curr_is(p, "Identifier")
    THEN Only({IF ~colon.ok THEN colon ELSE
               Only({IF ~expr.ok THEN expr ELSE
                     self_parse_type_body(skip_optional(expr.p, "Comma"),
                     Append(fields, <<p.curr.kind.name, expr.v>>), methods)
                     : expr \in {self_parse_expr(colon.p)}})
               : colon \in {expect(parser_advance(p), "Colon")}})
    ELSE PErr(ParseError("UnexpectedToken",
                         "Unexpected token in type body: " \o p.curr.kind.k,
                         p.curr.line, p.curr.col), p)

\* Parser::parse_type (parser.rs 708-749)
parse_type(p) ==
    Only({IF ~kw.ok THEN kw ELSE
          IF ~curr_is(kw.p, "Identifier")
              THEN PErr(ParseError("UnexpectedToken", "Expected type name",
                                   kw.p.curr.line, kw.p.curr.col), kw.p)
              ELSE
          Only({IF ~open.ok THEN open ELSE
                Only({IF ~body.ok THEN body ELSE
                      Only({IF ~close.ok THEN close ELSE
                            POk(SType(kw.p.curr.kind.name, body.v.fields, body.v.methods), close.p)
                            : close \in {expect(body.p, "RBrace")}})
                      : body \in {self_parse_type_body(open.p, <<>>, <<>>)}})
                : open \in {expect(parser_advance(kw.p), "LBrace")}})
          : kw \in {expect(p, "Type")}})

\* Parser::parse_match (parser.rs 829-836)
parse_match(p) ==
    PErr(ParseError("Custom", "parse_match n'est pas encore implemente",
                    p.curr.line, p.curr.col), p)

\* Parser::parse_enum (parser.rs 839-846)
parse_enum(p) ==
    PErr(ParseError("Custom", "parse_enum n'est pas encore implemente",
                    p.curr.line, p.curr.col), p)

\* Parser::parse_stmt (parser.rs 112-139)
parse_stmt(p) ==
    LET kind == p.curr.kind.k
    IN  CASE kind = "Type" -> parse_type(p)
          [] kind = "Let" -> parse_let(p)
          [] kind = "Fn" -> self_parse_function(p)
          [] kind = "Const" -> parse_const(p)
          [] kind = "Native" -> self_parse_native_function(p)
          [] kind = "Return" -> parse_return(p)
          [] kind = "If" -> self_parse_if(p)
          [] kind = "While" -> parse_while(p)
          [] kind = "For" -> parse_for(p)
          [] kind = "Import" -> parse_import(p)
          [] kind = "Break" -> parse_break(p)
          [] kind = "Continue" -> parse_continue(p)
          [] kind = "Print" -> parse_print(p)
          [] kind = "LBrace" -> parse_block_stmt(p)
          [] kind = "Match" -> parse_match(p)
          [] kind = "Enum" -> parse_enum(p)
          [] OTHER -> Only({IF ~expr.ok THEN expr ELSE
                            POk(SExpr(expr.v), skip_optional(expr.p, "Semicolon"))
                            : expr \in {self_parse_expr(p)}})

\* the entries of a dictionary (parser.rs 625-635)
parse_entries(p, acc) ==
    Only({IF ~key.ok THEN key ELSE
          Only({IF ~colon.ok THEN colon ELSE
                Only({IF ~value.ok THEN value ELSE
                      IF curr_is(value.p, "Comma")
                      THEN self_parse_entries(parser_advance(value.p), Append(acc, <<key.v, value.v>>))
                      ELSE POk(Append(acc, <<key.v, value.v>>), value.p)
                      : value \in {self_parse_expr(colon.p)}})
                : colon \in {expect(key.p, "Colon")}})
          : key \in {self_parse_expr(p)}})

\* the List arm of parse_primary (parser.rs 607-619): p1 is the parser after `[`
parse_list(p1) ==
    Only({IF ~elements.ok THEN elements ELSE
          Only({IF ~rb.ok THEN rb ELSE
                POk(EList(elements.v), rb.p)
                : rb \in {expect(elements.p, "RBracket")}})
          : elements \in {IF curr_is(p1, "RBracket") THEN POk(<<>>, p1) ELSE self_parse_exprs(p1, <<>>)}})

\* the Dict arm (parser.rs 620-639): p1 is the parser after `{`
parse_dict(p1) ==
    Only({IF ~entries.ok THEN entries ELSE
          Only({IF ~rbrace.ok THEN rbrace ELSE
                POk(EDict(entries.v), rbrace.p)
                : rbrace \in {expect(entries.p, "RBrace")}})
          : entries \in {IF curr_is(p1, "RBrace") THEN POk(<<>>, p1) ELSE self_parse_entries(p1, <<>>)}})

\* the parenthesis arm (parser.rs 640-656): p1 is the parser after `(`
parse_paren(p1) ==
    Only({IF ~inner.ok THEN inner ELSE
          IF curr_is(inner.p, "Comma")
          THEN Only({IF ~tuple.ok THEN tuple ELSE
                     Only({IF ~rp.ok THEN rp ELSE
                           POk(ETuple(tuple.v), rp.p)
                           : rp \in {expect(tuple.p, "RParen")}})
                     : tuple \in {self_parse_exprs(parser_advance(inner.p), <<inner.v>>)}})
          ELSE Only({IF ~rp.ok THEN rp ELSE
                     POk(inner.v, rp.p)
                     : rp \in {expect(inner.p, "RParen")}})
          : inner \in {self_parse_expr(p1)}})

\* the body of a lambda (parser.rs 685-696): p is the parser after the
\* parameter list
parse_lambda_body(params, p) ==
    IF curr_is(p, "LBrace")
    THEN Only({IF ~block.ok THEN block ELSE
               Only({IF ~close.ok THEN close ELSE
                     POk(ELambda(params, <<SBlock(block.v)>>), close.p)
                     : close \in {expect(block.p, "RBrace")}})
               : block \in {self_parse_stmts(parser_advance(p), <<>>, {"RBrace", "Eof"})}})
    ELSE Only({IF ~one.ok THEN one ELSE
               POk(ELambda(params, <<one.v>>), one.p)
               : one \in {self_parse_stmt(p)}})

\* the Lambda arm (parser.rs 657-697): p1 is the parser after the keyword
parse_lambda(p1) ==
    Only({IF ~lp.ok THEN lp ELSE
          Only({IF ~params.ok THEN params ELSE
                Only({IF ~prp.ok THEN prp ELSE
                      parse_lambda_body(params.v, prp.p)
                      : prp \in {expect(params.p, "RParen")}})
                : params \in {parse_params(lp.p, <<>>, "lambda")}})
          : lp \in {expect(p1, "LParen")}})

\* Parser::parse_primary (parser.rs 580-705)
parse_primary(p) ==
    LET kind == p.curr.kind
    IN  CASE kind.k = "Number" -> POk(ENumber(kind.n), parser_advance(p))
          [] kind.k = "String" -> POk(EString(kind.s), parser_advance(p))
          [] kind.k = "True" -> POk(EBool(TRUE), parser_advance(p))
          [] kind.k = "False" -> POk(EBool(FALSE), parser_advance(p))
          [] kind.k = "Identifier" -> POk(EVariable(kind.name), parser_advance(p))
          [] kind.k = "LBracket" -> parse_list(parser_advance(p))
          [] kind.k = "LBrace" -> parse_dict(parser_advance(p))
          [] kind.k = "LParen" -> parse_paren(parser_advance(p))
          [] kind.k = "Lambda" -> parse_lambda(parser_advance(p))
          [] OTHER -> PErr(token_inattendu(p), p)

\* the arguments of a call (parser.rs 539-547): p1 is the parser after `(`
parse_arguments(p1) ==
    Only({IF ~args.ok THEN args ELSE
          Only({IF ~rp.ok THEN rp ELSE
                POk(args.v, rp.p)
                : rp \in {expect(args.p, "RParen")}})
          : args \in {IF curr_is(p1, "RParen") THEN POk(<<>>, p1) ELSE self_parse_exprs(p1, <<>>)}})

\* a `.` that must be followed by an identifier
dot_needs_name(expr, p1) ==
    IF curr_is(p1, "Identifier")
    THEN self_postfix_loop(EFieldAccess(expr, p1.curr.kind.name), parser_advance(p1))
    ELSE PErr(token_inattendu(p1), p1)

\* the `.` of a postfix chain (parser.rs 552-563): p1 is the parser after it
parse_field(expr, p1) ==
    IF curr_is(p1, "Identifier")
    THEN self_postfix_loop(EFieldAccess(expr, p1.curr.kind.name), parser_advance(p1))
    ELSE self_postfix_loop(expr, p1)

\* the loop of parse_call (parser.rs 536-575)
postfix_loop(expr, p) ==
    IF curr_is(p, "LParen")
    THEN Only({IF ~args.ok THEN args ELSE
               self_postfix_loop(ECall(expr, args.v), args.p)
               : args \in {parse_arguments(parser_advance(p))}})
    ELSE IF curr_is(p, "Dot") THEN parse_field(expr, parser_advance(p))
    ELSE IF curr_is(p, "LBracket")
    THEN Only({IF ~index.ok THEN index ELSE
               Only({IF ~rb.ok THEN rb ELSE
                     self_postfix_loop(EIndex(expr, index.v), rb.p)
                     : rb \in {expect(index.p, "RBracket")}})
               : index \in {self_parse_expr(parser_advance(p))}})
    ELSE POk(expr, p)

\* Parser::parse_call (parser.rs 534-577)
parse_call(p) == Only({IF ~expr.ok THEN expr ELSE
                       self_postfix_loop(expr.v, expr.p)
                       : expr \in {parse_primary(p)}})

\* Parser::parse_unary (parser.rs 513-531)
parse_unary(p) ==
    IF curr_is(p, "Minus")
    THEN Only({IF ~expr.ok THEN expr ELSE
               POk(EUnary("Neg", expr.v), expr.p)
               : expr \in {self_parse_unary(parser_advance(p))}})
    ELSE IF curr_is(p, "Bang")
    THEN Only({IF ~expr.ok THEN expr ELSE
               POk(EUnary("Not", expr.v), expr.p)
               : expr \in {self_parse_unary(parser_advance(p))}})
    ELSE parse_call(p)

\* the method a level of the expression ladder calls for its operands
\* (parser.rs 387, 402, 417, 437, 459, 479), the last level calling parse_unary
\* (parser.rs 499)
operand ==
    [parse_logic_or |-> "parse_logic_and", parse_logic_and |-> "parse_equality",
     parse_equality |-> "parse_comparison", parse_comparison |-> "parse_term",
     parse_term |-> "parse_factor", parse_factor |-> "parse_power"]

RECURSIVE binary_level(_, _)
self_operand(level, p) ==
    IF level \in DOMAIN operand THEN binary_level(operand[level], p) ELSE parse_unary(p)

\* `while curr is an operator of the level { advance; right = self_operand()?;
\* expr = Binary { expr, op, right }; }`: left-associative
binary_loop(level, expr, p) ==
    IF p.curr.kind.k \notin DOMAIN level_ops(level) THEN POk(expr, p)
    ELSE Only({IF ~right.ok THEN right ELSE
               self_binary_loop(level, EBinary(expr, level_ops(level)[p.curr.kind.k], right.v),
               right.p)
               : right \in {self_operand(level, parser_advance(p))}})

\* Parser::parse_logic_or, parse_logic_and, parse_equality, parse_comparison,
\* parse_term, parse_factor and parse_power (parser.rs 386-510), which differ
\* in their operators and in the method of their operands only
binary_level(level, p) ==
    Only({IF ~expr.ok THEN expr ELSE
          self_binary_loop(level, expr.v, expr.p)
          : expr \in {self_operand(level, p)}})

\* an assignment that accepts any left-hand side, naming the target "_"
any_target(p) ==
    Only({IF ~expr.ok THEN expr ELSE
          IF ~curr_is(expr.p, "Assign") THEN expr
          ELSE Only({IF ~value.ok THEN value ELSE
                     POk(EAssign(IF expr.v.e = "Variable" THEN expr.v.name ELSE "_", value.v),
                         value.p)
                     : value \in {self_parse_assignment(parser_advance(expr.p))}})
          : expr \in {binary_level("parse_logic_or", p)}})

\* Parser::parse_assignment (parser.rs 365-383)
parse_assignment(p) ==
    Only({IF ~expr.ok THEN expr ELSE
          IF ~curr_is(expr.p, "Assign") THEN expr
          ELSE Only({IF ~value.ok THEN value ELSE
                     IF expr.v.e = "Variable" THEN POk(EAssign(expr.v.name, value.v), value.p)
                     ELSE PErr(ParseError("Custom", "Cible d'affectation invalide",
                                          value.p.curr.line, value.p.curr.col), value.p)
                     : value \in {self_parse_assignment(parser_advance(expr.p))}})
          : expr \in {binary_level("parse_logic_or", p)}})

\* Parser::parse_expr (parser.rs 360-362)
parse_expr(p) == parse_assignment(p)

\* `self.method(a)`: the method of the parser that a call names, applied to the
\* values of its arguments (their number is that of the method's parameters)
Parser(method, a) ==
    CASE method = "parse_stmt" /\ Len(a) = 1 -> parse_stmt(a[1])
      [] method = "parse_stmts" /\ Len(a) = 3 -> parse_stmts(a[1], a[2], a[3])
      [] method = "parse_block" /\ Len(a) = 1 -> parse_block(a[1])
      [] method = "parse_expr" /\ Len(a) = 1 -> parse_expr(a[1])
      [] method = "parse_function" /\ Len(a) = 1 -> parse_function(a[1])
      [] method = "parse_native_function" /\ Len(a) = 1 -> parse_native_function(a[1])
      [] method = "parse_if" /\ Len(a) = 1 -> parse_if(a[1])
      [] method = "function_rest" /\ Len(a) = 3 -> function_rest(a[1], a[2], a[3])
      [] method = "parse_type_body" /\ Len(a) = 3 -> parse_type_body(a[1], a[2], a[3])
      [] method = "parse_assignment" /\ Len(a) = 1 -> parse_assignment(a[1])
      [] method = "binary_loop" /\ Len(a) = 3 -> binary_loop(a[1], a[2], a[3])
      [] method = "parse_unary" /\ Len(a) = 1 -> parse_unary(a[1])
      [] method = "postfix_loop" /\ Len(a) = 2 -> postfix_loop(a[1], a[2])
      [] method = "parse_exprs" /\ Len(a) = 2 -> parse_exprs(a[1], a[2])
      [] method = "parse_entries" /\ Len(a) = 2 -> parse_entries(a[1], a[2])

(***************************************************************************)
(* The library's entry points (lib.rs).                                    *)
(***************************************************************************)
\* parse_source (lib.rs 16-19)
parse_source(text) == parse(ParserNew(text))

\* the tokens next_token returns for a text, up to Eof
RECURSIVE tokens_from(_)
tokens_from(lx) ==
    Only({IF r.k = "Ok" /\ r.tok.kind.k = "Eof" THEN <<r>>
          ELSE <<r>> \o tokens_from(r.lx)
          : r \in {next_token(lx)}})

\* every numeral of the text is a number of halves
InBounds(text) ==
    LET ts == tokens_from(LexerNew(text)) IN \A i \in DOMAIN ts : ts[i].k # "Bound"

(***************************************************************************)
(* Sessions: the statements a REPL session evaluates, in order.            *)
(***************************************************************************)
Vals == 0..MaxVal
\* the literal of a number of halves as the parser builds it: -h is Neg applied to h
Lit(h) == IF h < 0 THEN EUnary("Neg", ENumber(-h)) ELSE ENumber(h)
Call0(f) == SExpr(ECall(EVariable(f), <<>>))
Call1(f, a) == SExpr(ECall(EVariable(f), <<a>>))
Plus1(x) == EBinary(EVariable(x), "Add", ENumber(Whole(1)))
PrintV(x) == SPrintArgs(<<EVariable(x)>>)
PrintN(i) == SPrintArgs(<<ENumber(Whole(i))>>)

\* let c = a; fn inc() { c = c + 1; } inc(); inc(); c;
\* let c = a; fn set() { c = b; } set(); c;
SessionsAssign ==
    {<<SLet("c", ENumber(Whole(a))),
       SFunction("inc", <<>>, <<SExpr(EAssign("c", Plus1("c")))>>),
       Call0("inc"), Call0("inc"), SExpr(EVariable("c"))>> : a \in Vals}
    \cup
    {<<SLet("c", ENumber(Whole(a))),
       SFunction("set", <<>>, <<SExpr(EAssign("c", ENumber(Whole(b))))>>),
       Call0("set"), SExpr(EVariable("c"))>> : a \in Vals, b \in Vals}

\* let x = a; fn f() { return x; } x = b; f();
\* fn outer() { let x = a; fn f() { return x; } x = b; return f(); } outer();
SessionsClosure ==
    {<<SLet("x", ENumber(Whole(a))),
       SFunction("f", <<>>, <<SReturn(<<EVariable("x")>>)>>),
       SExpr(EAssign("x", ENumber(Whole(b)))),
       Call0("f")>> : a \in Vals, b \in Vals}
    \cup
    {<<SFunction("outer", <<>>,
          <<SLet("x", ENumber(Whole(a))),
            SFunction("f", <<>>, <<SReturn(<<EVariable("x")>>)>>),
            SExpr(EAssign("x", ENumber(Whole(b)))),
            SReturn(<<ECall(EVariable("f"), <<>>)>>)>>),
       Call0("outer")>> : a \in Vals, b \in Vals}

\* fn g() { return y; } fn f() { let y = a; return g(); } f();
\* fn mk() { let z = a; fn h() { return z; } return h; } let k = mk(); k();
SessionsLexical ==
    {<<SFunction("g", <<>>, <<SReturn(<<EVariable("y")>>)>>),
       SFunction("f", <<>>, <<SLet("y", ENumber(Whole(a))),
                              SReturn(<<ECall(EVariable("g"), <<>>)>>)>>),
       Call0("f")>> : a \in Vals}
    \cup
    {<<SFunction("mk", <<>>, <<SLet("z", ENumber(Whole(a))),
                               SFunction("h", <<>>, <<SReturn(<<EVariable("z")>>)>>),
                               SReturn(<<EVariable("h")>>)>>),
       SLet("k", ECall(EVariable("mk"), <<>>)),
       Call0("k")>> : a \in Vals}

\* let x = a; <construct binding x to b inside>; x;     (and t, unbound before)
ScopedConstructs(name, b) ==
    {SBlock(<<SLet(name, ENumber(Whole(b)))>>),
     SIf(EBool(TRUE), <<SLet(name, ENumber(Whole(b)))>>, <<>>),
     SIf(EBool(FALSE), <<>>, <<(<<SLet(name, ENumber(Whole(b)))>>)>>),
     SWhile(EBinary(EVariable("n"), "Lt", ENumber(Whole(1))),
            <<SLet(name, ENumber(Whole(b))), SExpr(EAssign("n", Plus1("n")))>>),
     SFor(name, ENumber(Whole(0)), ENumber(Whole(b)), <<>>)}
SessionsScope ==
    {<<SLet("n", ENumber(Whole(0))), SLet("x", ENumber(Whole(a))), c, SExpr(EVariable("x"))>> :
        a \in Vals, c \in UNION {ScopedConstructs("x", b) : b \in Vals}}
    \cup
    {<<SLet("n", ENumber(Whole(0))), c, SExpr(EVariable("t"))>> :
        c \in UNION {ScopedConstructs("t", b) : b \in Vals}}

\* fn f(n) { for i in 0..MaxVal+1 { if i == n { return i; } print i; } print 9; return 7; }
FnFirst ==
    SFunction("f", <<"n">>,
       <<SFor("i", ENumber(Whole(0)), ENumber(Whole(MaxVal + 1)),
              <<SIf(EBinary(EVariable("i"), "Eq", EVariable("n")),
                    <<SReturn(<<EVariable("i")>>)>>, <<>>),
                PrintV("i")>>),
         PrintN(9),
         SReturn(<<ENumber(Whole(7))>>)>>)
\* fn w(n) { let i = 0; while true { { if i == n { return i; } } print i; i = i + 1; } print 9; }
FnWhile ==
    SFunction("f", <<"n">>,
       <<SLet("i", ENumber(Whole(0))),
         SWhile(EBool(TRUE),
                <<SBlock(<<SIf(EBinary(EVariable("i"), "Eq", EVariable("n")),
                               <<SReturn(<<EVariable("i")>>)>>, <<>>)>>),
                  PrintV("i"),
                  SExpr(EAssign("i", Plus1("i")))>>),
         PrintN(9)>>)
\* fn g(n) { let r = f(n); print 8; return r + 1; }
FnOuter ==
    SFunction("g", <<"n">>,
       <<SLet("r", ECall(EVariable("f"), <<EVariable("n")>>)),
         PrintN(8),
         SReturn(<<Plus1("r")>>)>>)
SessionsReturn ==
    {<<f, FnOuter, Call1("g", ENumber(Whole(k)))>> :
        f \in {FnFirst, FnWhile}, k \in 0..(MaxVal + 1)}

\* a return at top level, bare or nested in if / while / for / block
TopReturns(a) ==
    LET ret == SReturn(<<ENumber(Whole(a))>>)
    IN  {ret, SReturn(<<>>),
         SIf(EBool(TRUE), <<ret>>, <<>>),
         SWhile(EBool(TRUE), <<ret>>),
         SFor("i", ENumber(Whole(0)), ENumber(Whole(2)), <<ret>>),
         SBlock(<<SBlock(<<ret>>)>>)}
SessionsTopReturn ==
    {<<SLet("x", ENumber(Whole(a))), r, SExpr(EVariable("x"))>> :
        a \in Vals, r \in UNION {TopReturns(b) : b \in Vals}}

\* fn h(p) { <body> } h(b); p;  the body ending normally, by return, or by an error
CallBodies ==
    {<<SLet("t", EVariable("p"))>>,
     <<SLet("t", EVariable("p")), SReturn(<<EVariable("t")>>), SLet("u", ENumber(0))>>,
     <<SLet("t", EVariable("p")), SExpr(EVariable("nothing"))>>,
     <<SLet("t", EVariable("p")), SBreak>>,
     <<SIf(EVariable("p"), <<SReturn(<<>>)>>, <<>>),
       SExpr(EBinary(EVariable("p"), "Div", EVariable("p")))>>}
SessionsCall ==
    {<<SLet("x", ENumber(Whole(a))), SFunction("h", <<"p">>, body),
       Call1("h", ENumber(Whole(b))), SExpr(EVariable("p"))>> :
        a \in Vals, b \in Vals, body \in CallBodies}

\* calls whose argument count differs from the parameter count
NumList(n) == EList([i \in 1..n |-> ENumber(Whole(i))])
ArityCalls(a) ==
    {ECall(EVariable("id"), <<>>),
     ECall(EVariable("id"), <<ENumber(Whole(a)), ENumber(Whole(a))>>),
     ECall(EVariable("input"), <<ENumber(Whole(a))>>),
     ECall(EVariable("to_number"), <<>>),
     ECall(EVariable("to_number"), <<EString(<<Digits[a + 1]>>), ENumber(Whole(a))>>),
     ECall(EVariable("length"), <<>>),
     ECall(EVariable("length"), <<NumList(a), ENumber(Whole(a))>>),
     ECall(EVariable("push"), <<NumList(a)>>),
     ECall(EVariable("push"), <<NumList(a), ENumber(Whole(a)), ENumber(Whole(a))>>),
     ECall(EVariable("remove"), <<NumList(a)>>),
     ECall(EVariable("remove"), <<NumList(a + 1), ENumber(Whole(0)), ENumber(Whole(a))>>),
     \* and with the right count
     ECall(EVariable("id"), <<ENumber(Whole(a))>>),
     ECall(EVariable("input"), <<>>),
     ECall(EVariable("length"), <<NumList(a)>>)}
SessionsArity ==
    {<<SFunction("id", <<"p">>, <<SReturn(<<EVariable("p")>>)>>), SExpr(c)>> :
        c \in UNION {ArityCalls(a) : a \in Vals}}

\* for i in s..e { print i; }   and   for i in s..e { print i; i = 7; }
HalfVals == (-3)..(2 * MaxVal + 1)
SessionsFor ==
    {<<SFor("i", Lit(s), Lit(e), body)>> :
        s \in HalfVals, e \in HalfVals,
        body \in {<<PrintV("i")>>,
                  <<PrintV("i"), SExpr(EAssign("i", ENumber(Whole(7))))>>}}

\* let x = 1; fn p() { print 7; } <left> <op> <right>;   the operands being
\* `false`, `true`, `x = 2`, `x = true`, `x`, `p()` and the unbound `u`
SideOperands ==
    {EBool(FALSE), EBool(TRUE), EAssign("x", ENumber(Whole(2))), EAssign("x", EBool(TRUE)),
     EVariable("x"), ECall(EVariable("p"), <<>>), EVariable("u")}
SideOps == {"And", "Or", "Add", "Eq"}
SessionsBinary ==
    {<<SLet("x", ENumber(Whole(1))), SFunction("p", <<>>, <<PrintN(7)>>),
       SExpr(EBinary(l, op, r))>> :
        l \in SideOperands, op \in SideOps, r \in SideOperands}

\* remove([1, .., n], index);   the index a whole or half number, negative or not
MaxList == 3
SessionsRemove ==
    {<<SExpr(ECall(EVariable("remove"), <<NumList(n), Lit(h)>>))>> :
        n \in 0..MaxList, h \in (-4)..(2 * MaxList + 2)}

\* const k = a; k;   and   let k = a; k;
SessionsConst ==
    {<<decl, SExpr(EVariable("k"))>> :
        decl \in {SConst("k", ENumber(Whole(a))) : a \in Vals}
                  \cup {SLet("k", ENumber(Whole(a))) : a \in Vals}}

\* the parameter lists of the built-in functions (runtime.rs 107-136), and for
\* each a call with arguments its handler accepts
NativeShape ==
    [input |-> <<>>, to_number |-> <<"x">>, length |-> <<"list">>,
     push |-> <<"list", "item">>, remove |-> <<"list", "index">>]
NativeArgs ==
    [input |-> <<>>, to_number |-> <<EString(<<"1">>)>>, length |-> <<NumList(1)>>,
     push |-> <<NumList(1), ENumber(Whole(2))>>, remove |-> <<NumList(1), ENumber(0)>>]
ReturnSeven == <<SReturn(<<ENumber(Whole(7))>>)>>
OtherParams(n) == [i \in 1..n |-> <<"a", "b">>[i]]
\* fn push(list, item) { return 7; } push([1], 2);   the same with an empty body,
\* with other parameter names, with no redefinition;   let p = push; p([1], 2);
SessionsRebind ==
    UNION {{<<SFunction(name, params, body),
              SExpr(ECall(EVariable(name), NativeArgs[name]))>> :
               params \in {NativeShape[name], OtherParams(Len(NativeShape[name]))},
               body \in {<<>>, ReturnSeven}} : name \in DOMAIN NativeShape}
    \cup {<<SExpr(ECall(EVariable(name), NativeArgs[name]))>> : name \in DOMAIN NativeShape}
    \cup UNION {{<<SLet("p", EVariable(name)), SExpr(ECall(EVariable("p"), args))>> :
                    args \in {NativeArgs[name], NativeArgs[name] \o <<ENumber(Whole(1))>>}}
                 : name \in DOMAIN NativeShape}

\* type T { v: 1, f: 5, fn f(a) { return a; } fn g() { return 7; } }
\* let o = T {};   then o.f, o.g, o.v, o.z, o.f(b), o.g(), o.f(o, b), o.g(b)
TypeT ==
    SType("T", << <<"v", ENumber(Whole(1))>>, <<"f", ENumber(Whole(5))>> >>,
          <<SFunction("f", <<"a">>, <<SReturn(<<EVariable("a")>>)>>),
            SFunction("g", <<>>, ReturnSeven)>>)
ObjField(field) == EFieldAccess(EVariable("o"), field)
SessionsMethod ==
    {<<TypeT, SLet("o", EInstance("T", <<>>)), SExpr(x)>> :
        x \in {ObjField(field) : field \in {"f", "g", "v", "z"}}
              \cup {ECall(ObjField("f"), <<ENumber(Whole(b))>>) : b \in Vals}
              \cup {ECall(ObjField("f"), <<EVariable("o"), ENumber(Whole(b))>>) : b \in Vals}
              \cup {ECall(ObjField("g"), <<>>), ECall(ObjField("g"), <<ENumber(Whole(1))>>),
                    ECall(ObjField("v"), <<>>)}}

\* let xs = [1, .., n];   then xs.push(v), xs.remove(i), xs.length, xs.len, and
\* the calls with no argument and with two
XsField(field) == EFieldAccess(EVariable("xs"), field)
ListMethodArgs ==
    {<<Lit(h)>> : h \in (-4)..(2 * MaxList + 2)}
    \cup {<<EString(<<"s">>)>>, <<EVariable("xs")>>, <<>>, <<ENumber(0), ENumber(0)>>}
SessionsListMethod ==
    {<<SLet("xs", NumList(n)), SExpr(x)>> :
        n \in 0..MaxList,
        x \in {ECall(XsField(m), args) : m \in {"push", "remove"}, args \in ListMethodArgs}
              \cup {XsField("length"), XsField("len")}}

\* fn p() { print 7; return 1; }  u = e;  u;     and the assignment inside a
\* block, a function body and a nested call
UndefinedAssigns ==
    {EAssign("u", e) : e \in {ENumber(Whole(1)), ECall(EVariable("p"), <<>>),
                              EVariable("nothing"), EAssign("w", ENumber(Whole(1)))}}
SessionsUndefined ==
    {<<SFunction("p", <<>>, <<PrintN(7), SReturn(<<ENumber(Whole(1))>>)>>),
       SExpr(a), SExpr(EVariable("u"))>> : a \in UndefinedAssigns}
    \cup {<<SFunction("p", <<>>, <<PrintN(7), SReturn(<<ENumber(Whole(1))>>)>>),
            SFunction("h", <<>>, <<SExpr(a)>>),
            Call0("h"), SExpr(EVariable("u"))>> : a \in UndefinedAssigns}
    \cup {<<SFunction("p", <<>>, <<PrintN(7), SReturn(<<ENumber(Whole(1))>>)>>),
            SExpr(EBlock(<<SExpr(a)>>)), SExpr(EVariable("u"))>> : a \in UndefinedAssigns}

\* while true { print 1; break; print 2; } print 3;     for i in 0..3 { print i; break; }
\* fn h() { while true { { if true { break; } } } print 2; } h();     { print 1; break; print 2; }
\* break;     and the same with continue
JumpSessions(jump) ==
    {<<SWhile(EBool(TRUE), <<PrintN(1), jump, PrintN(2)>>), PrintN(3)>>,
     <<SFor("i", ENumber(0), ENumber(Whole(3)), <<PrintV("i"), jump>>)>>,
     <<SFunction("h", <<>>,
                 <<SWhile(EBool(TRUE), <<SBlock(<<SIf(EBool(TRUE), <<jump>>, <<>>)>>)>>),
                   PrintN(2)>>),
       Call0("h")>>,
     <<SBlock(<<PrintN(1), jump, PrintN(2)>>)>>,
     <<jump>>}
SessionsJump == JumpSessions(SBreak) \cup JumpSessions(SContinue)

Sessions ==
    SessionsAssign \cup SessionsClosure \cup SessionsLexical \cup SessionsScope
    \cup SessionsReturn \cup SessionsTopReturn \cup SessionsCall \cup SessionsArity
    \cup SessionsFor \cup SessionsBinary \cup SessionsRemove \cup SessionsConst
    \cup SessionsRebind \cup SessionsMethod \cup SessionsUndefined
    \cup SessionsJump \cup SessionsListMethod

\* what the console may hold
Inputs == {<<>>, << <<" ", "4", "2", "\n">> >>}

(***************************************************************************)
(* The REPL session (main.rs 113-128): every statement of the session is   *)
(* evaluated in order against one interpreter, an error being reported     *)
(* and the session going on.                                               *)
(***************************************************************************)
NoResult == [k |-> "None", v |-> Null]

Init ==
    /\ src = <<>>
    /\ phase = "eval"
    /\ stmts \in Sessions
    /\ pc = 1
    /\ env = InterpreterNew
    /\ stdout = <<>>
    /\ stdin \in Inputs
    /\ result = NoResult
    /\ prev = [env |-> InterpreterNew, out |-> <<>>]
    /\ operands = <<>>
    /\ lexer = LexerNew(src)

EvalStmt ==
    /\ phase = "eval"
    /\ pc <= Len(stmts)
    /\ \E r \in {eval_stmt(stmts[pc],
                          [env |-> env, out |-> stdout, inp |-> stdin, fuel |-> MaxFuel])} :
           /\ r.k # "Bound"
           /\ env' = r.it.env
           /\ stdout' = r.it.out
           /\ stdin' = r.it.inp
           /\ result' = [k |-> r.k, v |-> r.v]
    /\ prev' = [env |-> env, out |-> stdout]
    /\ pc' = pc + 1
    /\ UNCHANGED <<src, phase, stmts, operands, lexer>>

Next == EvalStmt

Spec == Init /\ [][Next]_vars

(***************************************************************************)
(* eval_source (lib.rs 23-31): a text is parsed, a parse error being the   *)
(* result; its statements are then evaluated in order against a new        *)
(* interpreter, the first error ending the evaluation.                     *)
(***************************************************************************)
ForHead == <<"f", "o", "r", " ", "i", " ", "i", "n", " ">>
ForBody == <<" ", "{", " ", "p", "r", "i", "n", "t", " ", "i", ";", " ", "}">>
Separators ==
    {<<".", ".">>, <<" ", ".", ".", " ">>, <<" ", ".", ".">>, <<".", ".", " ">>}
ForRange(a, sep, b) == ForHead \o f64_to_string(a) \o sep \o f64_to_string(b) \o ForBody

C10Text ==
    <<"f", "o", "r", " ", "i", " ", "i", "n", " ", "0", ".", ".", "3", " ",
      "{", " ", "p", "r", "i", "n", "t", " ", "i", ";", " ", "}">>
LetSumText ==
    <<"l", "e", "t", " ", "x", " ", "=", " ", "2", " ", "+", " ", "2", ";",
      " ", "x", ";">>
LetAssignText ==
    <<"l", "e", "t", " ", "x", " ", "=", " ", "1", ";", " ", "x", " ", "=",
      " ", "2", ";", " ", "x", ";">>
LetErrorText ==
    <<"l", "e", "t", " ", "=", " ", ";">>
UndefinedThenText ==
    <<"y", ";", " ", "p", "r", "i", "n", "t", " ", "1", ";">>
PrintThenReturnText ==
    <<"p", "r", "i", "n", "t", " ", "1", ";", " ", "r", "e", "t", "u", "r",
      "n", " ", "2", ";", " ", "p", "r", "i", "n", "t", " ", "3", ";">>
CommentText ==
    <<"#", " ", "n", "o", "t", "h", "i", "n", "g", "\n", "/", "/", " ", "a",
      "t", " ", "a", "l", "l", "\n">>

\* `a + b * c` and `(a + b) * c` for one-digit numerals
SumProductText(a, b, c) ==
    <<Digits[a + 1], " ", "+", " ", Digits[b + 1], " ", "*", " ", Digits[c + 1]>>
ParenSumProductText(a, b, c) ==
    <<"(", Digits[a + 1], " ", "+", " ", Digits[b + 1], ")", " ", "*", " ", Digits[c + 1]>>
ArithVals == 1..(MaxVal + 1)
ArithTexts ==
    {SumProductText(a, b, c) : a \in ArithVals, b \in ArithVals, c \in ArithVals}
    \cup {ParenSumProductText(a, b, c) : a \in ArithVals, b \in ArithVals, c \in ArithVals}

\* `let x = a; x = b; x;`, `let x = a; let x = b; x;`, `let x = a + b; x;` and
\* `let x = a; let y = b; x;` for one-digit numerals
LetHead(name) == <<"l", "e", "t", " ", name, " ", "=", " ">>
LookupX == <<";", " ", "x", ";">>
LetTexts ==
    {LetHead("x") \o <<Digits[a + 1], ";", " ", "x", " ", "=", " ", Digits[b + 1]>> \o LookupX
        : a \in ArithVals, b \in ArithVals}
    \cup {LetHead("x") \o <<Digits[a + 1], ";", " ">> \o LetHead("x") \o <<Digits[b + 1]>> \o LookupX
        : a \in ArithVals, b \in ArithVals}
    \cup {LetHead("x") \o <<Digits[a + 1], " ", "+", " ", Digits[b + 1]>> \o LookupX
        : a \in ArithVals, b \in ArithVals}
    \cup {LetHead("x") \o <<Digits[a + 1], ";", " ">> \o LetHead("y") \o <<Digits[b + 1]>> \o LookupX
        : a \in ArithVals, b \in ArithVals}

\* texts the tokenizer or the parser refuses
PrintOne == <<"p", "r", "i", "n", "t", " ", "1", ";">>
ErrorTexts ==
    {PrintOne \o <<" ", "$">>,
     PrintOne \o <<" ", "$", " ">> \o PrintOne,
     LetHead("x") \o <<"1", " ", "@", " ", "2", ";">>,
     <<"\"", "a", "b">>,
     LetHead("s") \o <<"\"", "a", "b">>,
     PrintOne \o <<"\n", "\"", "a">>,
     <<"x", " ", "|", " ", "y", ";">>,
     <<"x", " ", "&", " ", "y", ";">>,
     <<"1", " ", "+", " ", ";">>,
     <<"1", " ", "+">>,
     LetHead("x"),
     PrintOne \o <<" ">> \o LetErrorText,
     LetErrorText \o <<" ", "$">>,
     <<"f", "n", " ", "f", "(", " ", "{", " ", "}">>,
     <<"f", "n", " ", "f", "(", ")", " ", "{", " ", "$", " ", "}">>,
     <<"$">>}

\* assignments: chains `a = b = e`, and `=` after a left-hand side that is no
\* bare variable
ChainTexts ==
    {<<"a", " ", "=", " ", "b", " ", "=", " ", "1", ";">>,
     <<"a", " ", "=", " ", "b", " ", "=", " ", "c", ";">>,
     <<"a", " ", "=", " ", "b", " ", "=", " ", "1", " ", "+", " ", "2", ";">>,
     <<"a", " ", "=", " ", "b", " ", "=", " ", "c", " ", "=", " ", "1", ";">>}
BadTargetTexts ==
    {<<"1", " ", "=", " ", "2", ";">>,
     <<"f", "(", ")", " ", "=", " ", "1", ";">>,
     <<"a", ".", "b", " ", "=", " ", "1", ";">>,
     <<"a", " ", "+", " ", "b", " ", "=", " ", "1", ";">>,
     <<"(", "a", ",", " ", "b", ")", " ", "=", " ", "1", ";">>,
     <<"\"", "s", "\"", " ", "=", " ", "1", ";">>,
     <<"a", " ", "=", " ", "1", " ", "=", " ", "2", ";">>,
     <<"-", "a", " ", "=", " ", "1", ";">>,
     <<"a", " ", "=", " ", "f", "(", "b", ")", " ", "=", " ", "1", ";">>}

\* function declarations with runs of newlines after the closing brace, before
\* the first statement of the body, and inside the body
Newlines(n) == [i \in 1..n |-> "\n"]
FnOpen == <<"f", "n", " ", "f", "(", ")", " ", "{">>
FnOneLine == FnOpen \o <<" ", "1", ";", " ", "}">>
TrailingRuns == {0, 1, MaxFunctionLines, MaxFunctionLines + 1, MaxFunctionLines + 6}
TrailingTexts ==
    {FnOneLine \o Newlines(n) : n \in TrailingRuns}
    \cup {FnOneLine \o Newlines(n) \o <<"2", ";">> : n \in TrailingRuns}
LeadingTexts == {FnOpen \o Newlines(n) \o <<"1", ";", " ", "}">> : n \in TrailingRuns}
InsideRuns == {1, MaxFunctionLines + 1, MaxFunctionLines + 6}
InsideTexts ==
    {FnOpen \o <<" ", "1", ";">> \o Newlines(n) \o <<"2", ";", " ", "}">> : n \in InsideRuns}
    \cup {FnOpen \o <<" ", "1", ";">> \o Newlines(n) \o <<"}", " ", "2", ";">> : n \in InsideRuns}

\* texts that go through the loops of the parser: statement list, block body,
\* parameter list, argument list, postfix chain, type body
LoopTexts ==
    {<<"f", "n", " ", "f", "(", "a", ",", " ", "b", ")", " ", "{", " ", "}">>,
     <<"f", "n", " ", "f", "(", "a", ")", " ", "{", " ", "1", ";", " ", "2", ";", " ", "}">>,
     <<"f", "(", "1", ",", " ", "2", ")", ";">>,
     <<"f", "(", ")", ";">>,
     <<"a", ".", "b", ".", "c", ";">>,
     <<"a", ".", "b", "(", "1", ")", ".", "c", ";">>,
     <<"t", "y", "p", "e", " ", "T", " ", "{", " ", "f", "n", " ", "g", "(", ")", " ", "{", " ", "}", " ", "}">>,
     <<"{", " ", "1", ";", " ", "2", ";", " ", "}">>,
     <<"{", " ", "}">>,
     <<"x", " ", "y", " ", "z">>,
     <<"p", "r", "i", "n", "t", " ", "1", ",", " ", "2", ";">>,
     <<"i", "f", " ", "1", " ", "{", " ", "}", " ", "e", "l", "s", "e", " ", "{", " ", "}">>,
     <<"w", "h", "i", "l", "e", " ", "0", " ", "{", " ", "}">>,
     <<"f", "n", " ", "f", "(">>,
     <<"f", "(", "1", ",">>,
     <<"{", " ", "1", ";">>,
     <<"a", ".", ".", "b", ";">>}
\* postfix chains with a `.` that no identifier follows
DotCallText == <<"a", ".", "(", "1", ")">>
DotNumberText == <<"a", ".", "5">>
DotEndText == <<"a", ".", ";">>
DotEofText == <<"a", ".">>
DotDotNameText == <<"a", " ", ".", " ", ".", " ", "b", ";">>
DotCallFieldText == <<"a", ".", "(", "1", ")", ".", "b", ";">>
DotTexts ==
    {DotCallText, DotNumberText, DotEndText, DotEofText, DotDotNameText, DotCallFieldText,
     <<"a", ".", " ", "b", ";">>,
     <<"a", ".", ".", "(", "1", ")">>}

Sources ==
    {ForRange(a, sep, b) : a \in 0..MaxVal, sep \in Separators, b \in 0..(2 * MaxVal + 2)}
    \cup {C10Text, LetSumText, LetAssignText, LetErrorText, UndefinedThenText,
          PrintThenReturnText, CommentText, <<>>}
    \cup ArithTexts \cup LetTexts \cup ErrorTexts \cup ChainTexts \cup BadTargetTexts
    \cup TrailingTexts \cup LeadingTexts \cup InsideTexts \cup LoopTexts \cup DotTexts

InitSource ==
    /\ src \in Sources
    /\ phase = "parse"
    /\ stmts = <<>>
    /\ pc = 1
    /\ env = InterpreterNew
    /\ stdout = <<>>
    /\ stdin = <<>>
    /\ result = NoResult
    /\ prev = [env |-> InterpreterNew, out |-> <<>>]
    /\ operands = <<>>
    /\ lexer = LexerNew(src)

\* lib.rs 24-26: parse_source, its error mapped to a Message; an empty list of
\* statements returns Ok(Null) at once
ParseSource ==
    /\ phase = "parse"
    /\ InBounds(src)
    /\ \E r \in {parse_source(src)} :
           IF ~r.ok
           THEN /\ result' = [k |-> "Message", v |-> r.err]
                /\ phase' = "done"
                /\ stmts' = stmts
           ELSE /\ stmts' = r.v
                /\ result' = IF r.v = <<>> THEN [k |-> "Ok", v |-> Null] ELSE result
                /\ phase' = IF r.v = <<>> THEN "done" ELSE "run"
    /\ UNCHANGED <<src, pc, env, stdout, stdin, prev, operands, lexer>>

\* lib.rs 27-30: one turn of the loop, `?` returning the first error, and the
\* last statement's value returned after the last turn
EvalSourceStmt ==
    /\ phase = "run"
    /\ pc <= Len(stmts)
    /\ \E r \in {eval_stmt(stmts[pc],
                          [env |-> env, out |-> stdout, inp |-> stdin, fuel |-> MaxFuel])} :
           /\ r.k # "Bound"
           /\ env' = r.it.env
           /\ stdout' = r.it.out
           /\ stdin' = r.it.inp
           /\ result' = [k |-> r.k, v |-> r.v]
           /\ phase' = IF r.k # "Ok" \/ pc = Len(stmts) THEN "done" ELSE "run"
    /\ prev' = [env |-> env, out |-> stdout]
    /\ pc' = pc + 1
    /\ UNCHANGED <<src, stmts, operands, lexer>>

NextSource == ParseSource \/ EvalSourceStmt

SpecSource == InitSource /\ [][NextSource]_vars

(***************************************************************************)
(* What the claims speak of.                                               *)
(***************************************************************************)
\* a statement has been evaluated; Last is that statement
Ran == phase = "eval" /\ pc > 1
Last == stmts[pc - 1]
\* the lines the last statement printed
Printed == SubSeq(stdout, Len(prev.out) + 1, Len(stdout))
\* the last statement is a call f(...) of the function value bound to f before it
IsCall(st) == st.s = "Expr" /\ st.expr.e = "Call" /\ st.expr.function.e = "Variable"
CalledFn == EnvGet(prev.env, Last.expr.function.name)
LastCallsFunction == Ran /\ IsCall(Last) /\ CalledFn # <<>> /\ CalledFn[1].t = "Function"
LookupBefore(name) == EnvGet(prev.env, name)
Lookup(name) == EnvGet(env, name)
ReturnedOk(v) == result.k = "Ok" /\ result.v = v
\* the lines printing the whole numbers from, from + 1, ..., to - 1
NumberLines(from, to) ==
    [j \in 1..(IF to > from THEN to - from ELSE 0) |-> f64_to_string(Whole(from + j - 1))]

\* the body of the called function is the single statement `x = <number>;` or
\* `x = x + 1;`, x being bound before the call and no parameter of the function
AssignsOuter ==
    /\ LastCallsFunction
    /\ Last.expr.arguments = <<>>
    /\ CalledFn[1].params = <<>>
    /\ Len(CalledFn[1].body) = 1
    /\ CalledFn[1].body[1].s = "Expr"
    /\ CalledFn[1].body[1].expr.e = "Assign"
    /\ LookupBefore(CalledFn[1].body[1].expr.name) # <<>>
    /\ LookupBefore(CalledFn[1].body[1].expr.name)[1].t = "Number"
    /\ \/ CalledFn[1].body[1].expr.expr.e = "Number"
       \/ CalledFn[1].body[1].expr.expr = Plus1(CalledFn[1].body[1].expr.name)
AssignedName == CalledFn[1].body[1].expr.name
AssignedValue ==
    IF CalledFn[1].body[1].expr.expr.e = "Number"
    THEN Number(CalledFn[1].body[1].expr.expr.n)
    ELSE Number(LookupBefore(AssignedName)[1].n + Whole(1))

\* C1 (as claimed): after a call of a function whose body assigns x = v, x being
\* bound in an enclosing frame and neither parameter nor local, a lookup of x in
\* the caller's environment yields v (after `let c = 0; fn inc() { c = c + 1; }
\* inc(); inc();` c is 2).
C1_AssignmentInBodyVisibleToCaller ==
    (AssignsOuter /\ result.k = "Ok") => Lookup(AssignedName) = <<AssignedValue>>

\* the session is at a call f() that follows let x = a; fn f() { return x; } x = b;
ClosureSequence ==
    /\ Ran
    /\ pc > 4
    /\ stmts[pc - 4].s = "Let"
    /\ stmts[pc - 4].expr.e = "Number"
    /\ stmts[pc - 3].s = "Function"
    /\ stmts[pc - 3] = SFunction(stmts[pc - 3].name, <<>>,
                                 <<SReturn(<<EVariable(stmts[pc - 4].name)>>)>>)
    /\ stmts[pc - 2].s = "Expr"
    /\ stmts[pc - 2].expr.e = "Assign"
    /\ stmts[pc - 2].expr = EAssign(stmts[pc - 4].name, ENumber(stmts[pc - 2].expr.expr.n))
    /\ stmts[pc - 1] = Call0(stmts[pc - 3].name)
\* the same sequence as the body of a function, which returns f(), just called
ClosureSequenceInBody ==
    /\ LastCallsFunction
    /\ Last.expr.arguments = <<>>
    /\ CalledFn[1].params = <<>>
    /\ Len(CalledFn[1].body) = 4
    /\ LET b == CalledFn[1].body
       IN  /\ b[1].s = "Let" /\ b[1].expr.e = "Number"
           /\ b[2].s = "Function"
           /\ b[2] = SFunction(b[2].name, <<>>, <<SReturn(<<EVariable(b[1].name)>>)>>)
           /\ b[3].s = "Expr" /\ b[3].expr.e = "Assign"
           /\ b[3].expr = EAssign(b[1].name, ENumber(b[3].expr.expr.n))
           /\ b[4] = SReturn(<<ECall(EVariable(b[2].name), <<>>)>>)

\* C2: a function reading a variable x of an enclosing scope sees the update made
\* after the function was created and before it is called: after
\* `let x = a; fn f() { return x; } x = b;` the call f() returns b, at top level
\* and when the sequence is the body of a function.
C2_ClosureSeesLaterAssignment ==
    /\ ClosureSequence => ReturnedOk(Number(stmts[pc - 2].expr.expr.n))
    /\ ClosureSequenceInBody => ReturnedOk(Number(CalledFn[1].body[3].expr.expr.n))

\* C2's case: the sequence has run, with b different from a
C2_Witness ==
    /\ ClosureSequence
    /\ stmts[pc - 2].expr.expr.n # stmts[pc - 4].expr.n
    /\ result.k = "Ok"

\* the call f() of fn f() { let y = a; return g(); } with fn g() { return y; }, y
\* not being bound in the caller's environment
DynamicRead ==
    /\ LastCallsFunction
    /\ Last.expr.arguments = <<>>
    /\ CalledFn[1].params = <<>>
    /\ Len(CalledFn[1].body) = 2
    /\ LET b == CalledFn[1].body
       IN  /\ b[1].s = "Let" /\ b[1].expr.e = "Number"
           /\ b[2].s = "Return" /\ b[2].value # <<>>
           /\ b[2].value[1].e = "Call" /\ b[2].value[1].arguments = <<>>
           /\ b[2].value[1].function.e = "Variable"
           /\ LookupBefore(b[2].value[1].function.name)
                = <<Function(<<>>, <<SReturn(<<EVariable(b[1].name)>>)>>)>>
           /\ LookupBefore(b[1].name) = <<>>
\* the call k() after fn mk() { let z = a; fn h() { return z; } return h; } let k = mk();
ReturnedClosure ==
    /\ Ran
    /\ pc > 3
    /\ stmts[pc - 3].s = "Function"
    /\ stmts[pc - 3].params = <<>>
    /\ Len(stmts[pc - 3].body) = 3
    /\ LET b == stmts[pc - 3].body
       IN  /\ b[1].s = "Let" /\ b[1].expr.e = "Number"
           /\ b[2].s = "Function"
           /\ b[2] = SFunction(b[2].name, <<>>, <<SReturn(<<EVariable(b[1].name)>>)>>)
           /\ b[3] = SReturn(<<EVariable(b[2].name)>>)
    /\ stmts[pc - 2].s = "Let"
    /\ stmts[pc - 2].expr = ECall(EVariable(stmts[pc - 3].name), <<>>)
    /\ stmts[pc - 1] = Call0(stmts[pc - 2].name)

\* C3 (as claimed): scoping is lexical: (a) a function g defined at global level and
\* called from inside f cannot read a local `let y` of f, the lookup failing with
\* undefined variable; (b) a function defined inside f and returned from f still
\* reads f's locals when called later.
C3_LexicalScoping ==
    /\ DynamicRead => result.k = "Message"
    /\ ReturnedClosure => ReturnedOk(Number(stmts[pc - 3].body[1].expr.n))

\* the names a block binds by `let`
LetNames(block) == {block[i].name : i \in {j \in DOMAIN block : block[j].s = "Let"}}
\* the names a block / if / while / for statement binds in its own scope
BoundIn(st) ==
    CASE st.s = "Block" -> LetNames(st.stmts)
      [] st.s = "If" ->
           LetNames(st.then_branch)
           \cup (IF st.else_branch = <<>> THEN {} ELSE LetNames(st.else_branch[1]))
      [] st.s = "While" -> LetNames(st.body)
      [] st.s = "For" -> {st.var} \cup LetNames(st.body)
      [] OTHER -> {}

\* C4 (as claimed): a block, if-branch, while body and for body run in a fresh child
\* frame discarded on exit: a name bound by `let` inside the construct, and the
\* for-loop variable, are not visible after it, and a binding of the same name in
\* the enclosing frame has the same value after the construct as before.
C4_ConstructFrameDiscarded ==
    (Ran /\ Last.s \in {"Block", "If", "While", "For"} /\ result.k = "Ok")
        => \A name \in BoundIn(Last) : Lookup(name) = LookupBefore(name)

\* the call g(k) of fn g(n) { let r = f(n); print 8; return r + 1; }, f being the
\* function `first` that returns from inside its loop
NestedReturnCall(first) ==
    /\ LastCallsFunction
    /\ CalledFn[1] = Function(FnOuter.params, FnOuter.body)
    /\ LookupBefore("f") = <<Function(first.params, first.body)>>
    /\ Len(Last.expr.arguments) = 1
    /\ Last.expr.arguments[1].e = "Number"
    /\ Last.expr.arguments[1].n % 2 = 0
    /\ Last.expr.arguments[1].n >= 0
CallArg == Last.expr.arguments[1].n \div 2

\* C5: a return at any nesting depth of for / if / while / block in a function body
\* stops the remaining statements and iterations of that body and becomes the
\* value of the innermost call only; the outer call goes on with that value.
\* With f returning i from `for i in 0..MaxVal+1 { if i == n { return i; } print i; }
\* print 9; return 7;` and g doing `let r = f(n); print 8; return r + 1;`, g(k)
\* prints 0..k-1 and 8 and yields k+1 when k <= MaxVal, and prints 0..MaxVal, 9, 8
\* and yields 8 otherwise; with f looping `while true { { if i == n { return i; } }
\* print i; i = i + 1; }`, g(k) prints 0..k-1 and 8 and yields k+1.
C5_ReturnEndsInnermostCallOnly ==
    /\ NestedReturnCall(FnFirst) =>
         IF CallArg <= MaxVal
         THEN /\ ReturnedOk(Number(Whole(CallArg + 1)))
              /\ Printed = NumberLines(0, CallArg) \o NumberLines(8, 9)
         ELSE /\ ReturnedOk(Number(Whole(8)))
              /\ Printed = NumberLines(0, MaxVal + 1) \o NumberLines(9, 10) \o NumberLines(8, 9)
    /\ NestedReturnCall(FnWhile) =>
         /\ ReturnedOk(Number(Whole(CallArg + 1)))
         /\ Printed = NumberLines(0, CallArg) \o NumberLines(8, 9)

\* C5's case: the return left the loop of f with iterations to go, after one
\* iteration had run, and g went on
C5_Witness ==
    /\ NestedReturnCall(FnFirst)
    /\ CallArg = 1
    /\ CallArg < MaxVal
    /\ ReturnedOk(Number(Whole(2)))

\* C6 (as claimed): the Return marker is never observed by a caller of eval_stmt:
\* no statement evaluated at top level, a top-level `return e;` bare or nested in
\* if / while / for / block included, results in RuntimeError::Return.
C6_ReturnMarkerNeverObserved == Ran => result.k # "Return"

\* the last statement called a user-defined function (one with a body) with as many
\* arguments, all number literals, as it has parameters
UserCall ==
    /\ LastCallsFunction
    /\ CalledFn[1].body # <<>>
    /\ Len(Last.expr.arguments) = Len(CalledFn[1].params)
    /\ \A i \in DOMAIN Last.expr.arguments : Last.expr.arguments[i].e = "Number"

\* C7: after a user-defined function call finishes, by running off the end of the
\* body, by a return or by a runtime error in the body, the active frame is the
\* one active before the call's frame was entered: the environment has the frames
\* it had, each with the names it had, and every parameter name resolves as it
\* did before the call.
C7_CallRestoresCallerFrame ==
    UserCall =>
        /\ result.k \in {"Ok", "Message"}
        /\ Len(env) = Len(prev.env)
        /\ \A i \in DOMAIN env : DOMAIN env[i] = DOMAIN prev.env[i]
        /\ \A p \in Range(CalledFn[1].params) : Lookup(p) = LookupBefore(p)

\* C7's case: the body bound a local and then raised a runtime error
C7_Witness ==
    /\ UserCall
    /\ CalledFn[1].params # <<>>
    /\ LetNames(CalledFn[1].body) # {}
    /\ result.k = "Message"
    /\ Lookup(CalledFn[1].params[1]) = <<>>

\* C8 (as claimed): a call of a function value, user-defined or built-in, with a
\* number of arguments other than its parameter count fails with the argument
\* count mismatch error, and neither the body nor a native handler gives a result.
C8_ArityMismatchIsAnError ==
    (LastCallsFunction /\ Len(Last.expr.arguments) # Len(CalledFn[1].params))
        => (result.k = "Message" /\ result.v = "Argument count mismatch")

\* truncation toward zero of a number of halves, as the claim states it
Trunc(h) ==
    CHOOSE i \in (-Abs(h))..Abs(h) :
        /\ 2 * Abs(i) <= Abs(h)
        /\ Abs(h) < 2 * Abs(i) + 2
        /\ (i = 0 \/ (i > 0) = (h > 0))
\* the number a literal denotes
IsLit(expr) == expr.e = "Number" \/ (expr.e = "Unary" /\ expr.op = "Neg" /\ expr.expr.e = "Number")
LitVal(expr) == IF expr.e = "Number" THEN expr.n ELSE -expr.expr.n
\* the last statement is for v in s..e { print v; ... } with literals s and e
ForOverLiterals ==
    /\ Ran
    /\ Last.s = "For"
    /\ IsLit(Last.start)
    /\ IsLit(Last.end)
    /\ Last.body # <<>>
    /\ Last.body[1] = PrintV(Last.var)
    /\ \A i \in 2..Len(Last.body) : Last.body[i].s = "Expr" /\ Last.body[i].expr.e = "Assign"

\* C9: a For statement whose start and end evaluate to the numbers s and e runs its
\* body exactly once for each integer i with trunc(s) <= i < trunc(e), ascending,
\* the loop variable being bound to i at the start of that run; no run when
\* trunc(s) >= trunc(e), and e itself is never bound.
C9_ForIteratesHalfOpenRange ==
    ForOverLiterals =>
        /\ ReturnedOk(Null)
        /\ Printed = NumberLines(Trunc(LitVal(Last.start)), Trunc(LitVal(Last.end)))

\* C9's case: for i in -0.5..2.5 ran its body for 0 and for 1, the body assigning
\* the loop variable
C9_Witness ==
    /\ ForOverLiterals
    /\ LitVal(Last.start) = -1
    /\ LitVal(Last.end) = 5
    /\ Len(Last.body) = 2
    /\ Printed = NumberLines(0, 2)

\* C10: parsing and evaluating the text `for i in 0..3 { print i; }` succeeds
\* and prints exactly 0, 1 and 2, the tokenizer reading `0..3` as Number(0),
\* DotDot, Number(3)
C10_RangeWithoutSpacesPrints ==
    (src = C10Text /\ phase = "done") =>
        (result.k = "Ok" /\ stdout = NumberLines(0, 3))

\* the text has been parsed and evaluated to the end, or to its first error
SourceDone == phase = "done"
SourceYields(v) == SourceDone /\ result.k = "Ok" /\ result.v = v

\* C11 (as claimed): evaluating `2 + 2 * 2` yields Number(8.0), and evaluating
\* `(2 + 2) * 2` yields Number(8.0) too.
C11_BothYieldEight ==
    /\ (src = SumProductText(2, 2, 2) /\ SourceDone) => SourceYields(Number(Whole(8)))
    /\ (src = ParenSumProductText(2, 2, 2) /\ SourceDone) => SourceYields(Number(Whole(8)))

\* C11 (amended): `*` binds tighter than `+`: evaluating `a + b * c` yields
\* a + (b * c), so `2 + 2 * 2` yields Number(6.0), and evaluating `(a + b) * c`
\* yields (a + b) * c, so `(2 + 2) * 2` yields Number(8.0).
C11_ProductBindsTighter ==
    \A a \in ArithVals, b \in ArithVals, c \in ArithVals :
        /\ (src = SumProductText(a, b, c) /\ SourceDone)
              => SourceYields(Number(Whole(a + b * c)))
        /\ (src = ParenSumProductText(a, b, c) /\ SourceDone)
              => SourceYields(Number(Whole((a + b) * c)))

\* C11's case: `2 + 2 * 2` has been evaluated, to 6.0
C11_Witness == src = SumProductText(2, 2, 2) /\ SourceYields(Number(Whole(6)))

(***************************************************************************)
(* eval_binary on its own (runtime.rs 457-513): an operator and two values *)
(* of every variant are drawn, and the function is applied to them.        *)
(***************************************************************************)
\* the operators eval_binary has an arm for, and two of those it has none for
\* (ast.rs 145-171)
BinOps ==
    {"Add", "Sub", "Mul", "Div", "Eq", "Neq", "Lt", "Lte", "Gt", "Gte", "And", "Or",
     "Pow", "Mod", "Concat"}
EmptyType == Type("T", NoVars, NoVars)
OperandValues ==
    {Number(0), Number(Whole(1)), Number(3), Number(-Whole(2)),
     Bool(TRUE), Bool(FALSE), String(<<>>), String(<<"a">>), Null,
     List(<<>>), List(<<Number(Whole(1))>>), Function(<<"x">>, <<>>),
     EmptyType, Instance(EmptyType, NoVars)}

InitBinary ==
    /\ operands \in [op : BinOps, left : OperandValues, right : OperandValues]
    /\ phase = "binary"
    /\ src = <<>>
    /\ stmts = <<>>
    /\ pc = 1
    /\ env = InterpreterNew
    /\ stdout = <<>>
    /\ stdin = <<>>
    /\ result = NoResult
    /\ prev = [env |-> InterpreterNew, out |-> <<>>]
    /\ lexer = LexerNew(src)

\* one call of eval_binary
EvalBinary ==
    /\ phase = "binary"
    /\ \E r \in {eval_binary(operands.op, operands.left, operands.right)} :
           /\ r.k # "Bound"
           /\ result' = r
    /\ phase' = "applied"
    /\ UNCHANGED <<src, stmts, pc, env, stdout, stdin, prev, operands, lexer>>

NextBinary == EvalBinary

SpecBinary == InitBinary /\ [][NextBinary]_vars

\* eval_binary has been applied to the operands
Applied == phase = "applied"
BothAre(variant) == operands.left.t = variant /\ operands.right.t = variant
Succeeds == result.k = "Ok"
Errors == result.k = "Message"

BinaryStatement ==
    /\ Ran
    /\ Last.s = "Expr"
    /\ Last.expr.e = "Binary"
    /\ Last.expr.left \in SideOperands
    /\ Last.expr.right \in SideOperands
\* the interpreter before the last statement
Before == [env |-> prev.env, out |-> prev.out, inp |-> stdin, fuel |-> MaxFuel]
\* the left operand evaluated on its own, and the right one evaluated after it
LeftAlone == eval_expr(Last.expr.left, Before)
RightAfterLeft == eval_expr(Last.expr.right, LeftAlone.it)
IsStatement(l, op, r) == BinaryStatement /\ Last.expr = EBinary(l, op, r)

\* C13: a Binary expression evaluates its left operand, then its right operand,
\* then applies the operator, for every operator, `&&` and `||` included: the
\* effects and the error of the right operand occur whatever the value of the
\* left one (after `false && (x = 2)` and `true || (x = 2)` x is 2, and
\* `false && u` fails on the unbound u), the right operand sees the effects of
\* the left one (`(x = 2) + x` is 4), and an error of the left operand is the
\* result and leaves the right operand unevaluated (after `u && (x = 2)` x is
\* still 1, and `u + p()` prints nothing).
C13_LeftThenRightAlways ==
    /\ BinaryStatement =>
          IF LeftAlone.k # "Ok"
          THEN /\ result = [k |-> LeftAlone.k, v |-> LeftAlone.v]
               /\ env = LeftAlone.it.env
               /\ stdout = LeftAlone.it.out
          ELSE /\ env = RightAfterLeft.it.env
               /\ stdout = RightAfterLeft.it.out
               /\ result = IF RightAfterLeft.k # "Ok"
                           THEN [k |-> RightAfterLeft.k, v |-> RightAfterLeft.v]
                           ELSE eval_binary(Last.expr.op, LeftAlone.v, RightAfterLeft.v)
    /\ \A op \in SideOps :
          /\ \A l \in {EBool(FALSE), EBool(TRUE)} :
                /\ IsStatement(l, op, EAssign("x", ENumber(Whole(2))))
                      => Lookup("x") = <<Number(Whole(2))>>
                /\ IsStatement(l, op, ECall(EVariable("p"), <<>>))
                      => Printed = <<f64_to_string(Whole(7))>>
                /\ IsStatement(l, op, EVariable("u")) => result.k = "Message"
          /\ \A r \in SideOperands :
                IsStatement(EVariable("u"), op, r)
                    => /\ result.k = "Message"
                       /\ Lookup("x") = <<Number(Whole(1))>>
                       /\ Printed = <<>>
    /\ IsStatement(EAssign("x", ENumber(Whole(2))), "Add", EVariable("x"))
          => ReturnedOk(Number(Whole(4)))

\* C13's case: `false && (x = 2)` has been evaluated: x is 2 and the operator has
\* refused the number
C13_Witness ==
    /\ IsStatement(EBool(FALSE), "And", EAssign("x", ENumber(Whole(2))))
    /\ Lookup("x") = <<Number(Whole(2))>>
    /\ result.k = "Message"

\* the last statement is `remove([1, .., n], index);`, remove being the built-in
RemoveCall ==
    /\ LastCallsFunction
    /\ Last.expr.function.name = "remove"
    /\ CalledFn = <<Function(<<"list", "index">>, <<>>)>>
    /\ Len(Last.expr.arguments) = 2
    /\ Last.expr.arguments[1].e = "List"
    /\ IsLit(Last.expr.arguments[2])
RemoveList == [i \in DOMAIN Last.expr.arguments[1].elements |-> Number(Whole(i))]
\* the index, in halves
RemoveIndex == LitVal(Last.expr.arguments[2])
\* a list without the element at the 0-based position i
Without(list, i) == [j \in 1..(Len(list) - 1) |-> IF j <= i THEN list[j] ELSE list[j + 1]]

\* C14 (as claimed): remove(list, index) returns the list without the element at
\* position index when 0 <= index < length(list), and a runtime error for every
\* index outside that range, every negative index included.
C14_RemoveInRangeOrError ==
    RemoveCall =>
        /\ (RemoveIndex >= 0 /\ RemoveIndex % 2 = 0 /\ RemoveIndex \div 2 < Len(RemoveList))
              => ReturnedOk(List(Without(RemoveList, RemoveIndex \div 2)))
        /\ (RemoveIndex < 0 \/ RemoveIndex >= Whole(Len(RemoveList)))
              => result.k = "Message"

\* the last statement declares a name with a number literal: `let` or `const`
Declares(kind) == Ran /\ Last.s = kind /\ Last.expr.e = "Number"
\* the statement before the last one did, and the last one is a lookup of the name
LookupAfter(kind) ==
    /\ Ran
    /\ pc > 2
    /\ stmts[pc - 2].s = kind
    /\ stmts[pc - 2].expr.e = "Number"
    /\ Last = SExpr(EVariable(stmts[pc - 2].name))

\* C15 (as claimed): `const name = expr;` evaluates expr and binds name to its
\* value in the current frame, as `let` does, so that a following lookup of name
\* yields that value.
C15_ConstBindsLikeLet ==
    /\ Declares("Const") =>
          /\ result.k = "Ok"
          /\ Lookup(Last.name) = <<Number(Last.expr.n)>>
    /\ LookupAfter("Const") => ReturnedOk(Number(stmts[pc - 2].expr.n))

\* the statement writes name: `let name = e;` or `name = e;`
Writes(st, name) ==
    \/ st.s = "Let" /\ st.name = name
    \/ st.s = "Expr" /\ st.expr.e = "Assign" /\ st.expr.name = name
Written(st) == IF st.s = "Let" THEN st.expr ELSE st.expr.expr
\* a numeral or a sum of two numerals, and the number it denotes
IsPlain(e) ==
    \/ e.e = "Number"
    \/ e.e = "Binary" /\ e.op = "Add" /\ e.left.e = "Number" /\ e.right.e = "Number"
PlainVal(e) == IF e.e = "Number" THEN e.n ELSE e.left.n + e.right.n
\* the text is plain writes of numerals followed by one lookup, the last statement
LookupLast ==
    /\ Len(stmts) > 1
    /\ stmts[Len(stmts)].s = "Expr"
    /\ stmts[Len(stmts)].expr.e = "Variable"
    /\ \A i \in 1..(Len(stmts) - 1) :
           /\ \E name \in {"x", "y"} : Writes(stmts[i], name)
           /\ IsPlain(Written(stmts[i]))
LookedUp == stmts[Len(stmts)].expr.name
\* the most recent write of the name that is looked up, when there is one
RecentWrites ==
    {i \in 1..(Len(stmts) - 1) :
        /\ Writes(stmts[i], LookedUp)
        /\ \A j \in (i + 1)..(Len(stmts) - 1) : ~Writes(stmts[j], LookedUp)}

\* C16: statements evaluated in order against one interpreter: eval_source
\* returns the value of the last statement, and a lookup yields the value of the
\* most recent `let` or assignment of the name; `let x = 2 + 2; x;` yields
\* Number(4.0) and `let x = 1; x = 2; x;` yields Number(2.0).
C16_LookupYieldsMostRecentWrite ==
    /\ (SourceDone /\ src = LetSumText) => SourceYields(Number(Whole(4)))
    /\ (SourceDone /\ src = LetAssignText) => SourceYields(Number(Whole(2)))
    /\ (SourceDone /\ LookupLast) =>
          \A i \in RecentWrites : SourceYields(Number(PlainVal(Written(stmts[i]))))
    /\ (phase = "run" /\ pc > 1) => result.k = "Ok"
C16_Witness ==
    /\ SourceDone
    /\ src = LetAssignText
    /\ LookupLast
    /\ RecentWrites = {2}
    /\ SourceYields(Number(Whole(2)))

\* the results of next_token over the text, up to Eof, and their positions
Tokens == tokens_from(LexerNew(src))
TokenPos(r) == IF r.k = "Ok" THEN <<r.tok.line, r.tok.col>> ELSE <<r.err.line, r.err.col>>
LexErrors == {i \in DOMAIN Tokens : Tokens[i].k = "Err"}
FirstLexError == CHOOSE i \in LexErrors : \A j \in LexErrors : i <= j
\* parse_source has returned; it returned an error
Parsed == phase # "parse"
ParseFailed == Parsed /\ pc = 1 /\ result.k = "Message"
\* the lexer parse_source ended with, and the last token the parser had pulled
\* by then: the first one that leaves the lexer there.  An Eof that follows it
\* leaves the lexer there as well.
FinalLexer == parse_source(src).p.lexer
LastPulled ==
    CHOOSE i \in DOMAIN Tokens :
        /\ Tokens[i].lx = FinalLexer
        /\ \A j \in 1..(i - 1) : Tokens[j].lx # FinalLexer
ErrorPos == <<result.v.line, result.v.col>>
AtLastPulled ==
    \/ ErrorPos = TokenPos(Tokens[LastPulled])
    \/ /\ LastPulled < Len(Tokens)
       /\ Tokens[LastPulled + 1].lx = FinalLexer
       /\ ErrorPos = TokenPos(Tokens[LastPulled + 1])

\* C17: parsing is fail-fast and hides no tokenizer error: when next_token
\* returns a LexError for a token of the text, or a parse error occurs, parse
\* returns one ParseError at the position of the offending token and no
\* statements; no token after a synthetic Error token is pulled and Ok is never
\* returned once one was produced.
C17_FailFastNoHiddenLexError ==
    /\ (Parsed /\ LexErrors # {}) =>
          /\ ParseFailed
          /\ LastPulled <= FirstLexError
          /\ LastPulled = FirstLexError => ErrorPos = TokenPos(Tokens[FirstLexError])
    /\ ParseFailed =>
          /\ stmts = <<>>
          /\ phase = "done"
          /\ AtLastPulled
    /\ (Parsed /\ src = LetErrorText) => ParseFailed
C17_Witness ==
    /\ ParseFailed
    /\ LexErrors # {}
    /\ FirstLexError > 1
    /\ LastPulled = FirstLexError
    /\ FirstLexError < Len(Tokens) - 1

(***************************************************************************)
(* The tokenizer on its own: next_token (lexer.rs 119-258) called again    *)
(* and again on one Lexer, also after it has returned Eof or an error.     *)
(* pc counts the calls, result is what the last call returned and prev     *)
(* holds the lexer and the result as they were before that call.           *)
(***************************************************************************)
MaxCalls == 4
LexHeads ==
    {<<>>, <<" ">>, <<"\n">>, <<"x", " ">>, <<"x", "\n", " ">>, <<"(", "\n", "\n">>}
LexBodies ==
    {<<>>, <<"x">>, <<"1", "2">>, <<"(">>, <<"=", "=">>, <<"=">>, <<".", ".">>, <<"$">>,
     <<"&">>, <<"\"", "a", "b", "\"">>, <<"\"", "a", "b">>, <<"\"", "a", "\n", "b">>,
     <<"\"", "\n", "\n">>, <<"\"", "a", "\\">>, <<"\"", "a", "\"", " ", "y">>,
     <<"\"">>}
LexTexts == {h \o b : h \in LexHeads, b \in LexBodies}

InitLexer ==
    /\ src \in LexTexts
    /\ lexer = LexerNew(src)
    /\ phase = "lex"
    /\ pc = 1
    /\ result = NoResult
    /\ prev = [lexer |-> LexerNew(src), result |-> NoResult]
    /\ stmts = <<>>
    /\ env = InterpreterNew
    /\ stdout = <<>>
    /\ stdin = <<>>
    /\ operands = <<>>

\* one call of next_token: `&mut self` is left as the call leaves it, and the
\* caller gets Ok(token) or Err(error)
NextToken ==
    /\ phase = "lex"
    /\ pc <= MaxCalls
    /\ \E r \in {next_token(lexer)} :
           /\ r.k # "Bound"
           /\ lexer' = r.lx
           /\ result' = [k |-> r.k, v |-> IF r.k = "Ok" THEN r.tok ELSE r.err]
    /\ prev' = [lexer |-> lexer, result |-> result]
    /\ pc' = pc + 1
    /\ UNCHANGED <<src, phase, stmts, env, stdout, stdin, operands>>

NextLexer == NextToken

SpecLexer == InitLexer /\ [][NextLexer]_vars

\* what a call returned
IsEof(r) == r.k = "Ok" /\ r.v.kind.k = "Eof"
IsUnterminated(r) == r.k = "Err" /\ r.v.message = "Unterminated string literal"
AtEnd(lx) == lx.pos > Len(lx.chars)

\* C18: once next_token has returned Eof, every later call returns Eof with the
\* same line and column and leaves the lexer as it was; the same holds from the
\* call that follows a LexError for a string that ran to the end of the input.
C18_EofIsIdempotent ==
    /\ IsEof(prev.result) => (result = prev.result /\ lexer = prev.lexer)
    /\ IsUnterminated(prev.result) =>
          /\ AtEnd(prev.lexer)
          /\ IsEof(result)
          /\ lexer = prev.lexer
          /\ <<result.v.line, result.v.col>> = <<lexer.line, lexer.col>>
C18_Witness ==
    /\ IsEof(prev.result)
    /\ IsEof(result)
    /\ pc = 4
    /\ \E h \in LexHeads : src = h \o <<"\"", "a", "\n", "b">>

\* the lexer at the first character of the token a call returns: the blanks
\* before it skipped (lexer.rs 123-128)
RECURSIVE SkipBlanks(_)
SkipBlanks(lx) ==
    IF peek(lx) # <<>> /\ peek(lx)[1] \in {" ", "\t", "\r", "\n"}
    THEN SkipBlanks(lexer_advance(lx))
    ELSE lx
TokenStart == SkipBlanks(prev.lexer)
Called == pc > 1 /\ phase = "lex"

\* C19 (as claimed): every token and every error carries a 1-based line and a
\* 1-based column: line >= 1 and col >= 1 always, and col is the column of the
\* first character of the token, counted the same way for identifiers, numbers,
\* strings, single-character and two-character tokens.
C19_OneBasedPositions ==
    Called =>
        /\ result.v.line >= 1
        /\ result.v.col >= 1
        /\ ~IsEof(result) => result.v.col = TokenStart.col + 1

\* C20 (as claimed): when a string literal is not closed before the end of the
\* input, next_token returns a LexError whose line and col are those of the
\* string's opening quote (the col as `start_col` counts it), also when the
\* string contains newline characters.
C20_UnterminatedAtOpeningQuote ==
    (Called /\ IsUnterminated(result)) =>
        /\ peek(TokenStart) = <<"\"">>
        /\ result.v.line = TokenStart.line
        /\ result.v.col = TokenStart.col

\* the statements parse_source returned, and its error
ParsedOk == Parsed /\ ~ParseFailed
IsAssign(e) == e.e = "Assign"
\* C21: `a = b = e` parses as Assign{a, Assign{b, e}}, and an `=` whose
\* left-hand side is no bare variable reference (a literal, a call, a field
\* access, a binary expression, a parenthesised tuple) makes parse return a
\* parse error.
C21_AssignRightAssocVariableOnly ==
    /\ (Parsed /\ src \in ChainTexts) =>
          /\ ParsedOk
          /\ Len(stmts) = 1
          /\ stmts[1].s = "Expr"
          /\ IsAssign(stmts[1].expr)
          /\ stmts[1].expr.name = "a"
          /\ IsAssign(stmts[1].expr.expr)
          /\ stmts[1].expr.expr.name = "b"
          /\ ~IsAssign(stmts[1].expr.expr.expr) =>
                stmts[1].expr.expr.expr \in
                    {ENumber(Whole(1)), EVariable("c"),
                     EBinary(ENumber(Whole(1)), "Add", ENumber(Whole(2)))}
    /\ (Parsed /\ src \in BadTargetTexts) =>
          /\ ParseFailed
          /\ result.v.kind = "Custom"
          /\ result.v.message = "Cible d'affectation invalide"
          /\ stmts = <<>>
C21_Witness ==
    /\ ParsedOk
    /\ src \in ChainTexts
    /\ stmts[1].expr.expr.expr = EAssign("c", ENumber(Whole(1)))

\* the text is a function declaration, whose body is on one line, followed by
\* newlines (and by another statement); the body starts after newlines; the body
\* holds a run of more than MaxFunctionLines newlines
TooLong ==
    /\ ParseFailed
    /\ result.v.kind = "Custom"
    /\ \E n \in 1..(2 * MaxFunctionLines) :
          result.v.message = "Function 'f' exceeds 64 lines (" \o Join(NatToChars(n)) \o " lines)"
LongInside == \E n \in InsideRuns : n > MaxFunctionLines /\ Len(src) > n + 8

\* C22 (as claimed): a function declaration is rejected with a Custom parse
\* error naming the function if and only if its body, from `{` to the matching
\* `}`, spans more than 64 source lines; lines that follow the closing `}` and
\* blank lines between `{` and the first statement do not change the outcome.
C22_OnlyBodyLinesCount ==
    /\ (Parsed /\ src \in TrailingTexts) => ParsedOk
    /\ (Parsed /\ src \in LeadingTexts) => ParsedOk
    /\ (Parsed /\ src \in InsideTexts) => (TooLong <=> LongInside)

\* the last statement is the call `name(args)` of a built-in's name with the
\* arguments of NativeArgs; what the native handler returns for that call
CallsByName ==
    /\ LastCallsFunction
    /\ Last.expr.function.name \in DOMAIN NativeShape
    /\ Last.expr.arguments = NativeArgs[Last.expr.function.name]
CalledName == Last.expr.function.name
HandledNatively ==
    /\ result.k = "Ok"
    /\ CASE CalledName = "input" -> result.v.t = "String"
         [] CalledName = "to_number" -> result.v = Number(Whole(1))
         [] CalledName = "length" -> result.v = Number(Whole(1))
         [] CalledName = "push" -> result.v = List(<<Number(Whole(1)), Number(Whole(2))>>)
         [] CalledName = "remove" -> result.v = List(<<>>)
HasNativeShape(f) == f.params = NativeShape[CalledName] /\ f.body = <<>>

IsFieldOfVariable(e) == e.e = "FieldAccess" /\ e.object.e = "Variable"
AccessLast == Ran /\ Last.s = "Expr" /\ IsFieldOfVariable(Last.expr)
MethodCallLast ==
    Ran /\ Last.s = "Expr" /\ Last.expr.e = "Call" /\ IsFieldOfVariable(Last.expr.function)
Accessed == IF Last.expr.e = "Call" THEN Last.expr.function ELSE Last.expr
Receiver == LookupBefore(Accessed.object.name)[1]
OnInstance == LookupBefore(Accessed.object.name) # <<>> /\ Receiver.t = "Instance"
IsMethod == Accessed.field \in DOMAIN Receiver.typ.methods
Method == Receiver.typ.methods[Accessed.field]

\* C24: FieldAccess on an Instance whose type has a method of that name yields
\* a Function whose parameters are "self" followed by the method's, a method
\* going before a field of the same name; otherwise it yields the field's value,
\* and an error when there is neither.  Nothing is bound to self: the call
\* `obj.f(a1..an)` with the n arguments the method declares fails with
\* "Argument count mismatch".
C24_MethodAccessPrependsSelf ==
    /\ (AccessLast /\ OnInstance) =>
          IF IsMethod
          THEN ReturnedOk(Function(<<"self">> \o Method.params, Method.body))
          ELSE IF Accessed.field \in DOMAIN Receiver.fields
          THEN ReturnedOk(Receiver.fields[Accessed.field])
          ELSE result.k = "Message"
    /\ (MethodCallLast /\ OnInstance /\ IsMethod
          /\ Len(Last.expr.arguments) = Len(Method.params)) =>
          /\ result.k = "Message"
          /\ result.v = "Argument count mismatch"
          /\ env = prev.env
C24_Witness ==
    /\ MethodCallLast
    /\ OnInstance
    /\ Accessed.field = "f"
    /\ Accessed.field \in DOMAIN Receiver.fields
    /\ Last.expr.arguments = <<ENumber(Whole(1))>>
    /\ result.k = "Message"

\* the last statement is `name = e;` for a name no frame binds; the statement
\* before the last one was, and the last one is the lookup `name;`
AssignsUndefined ==
    /\ Ran
    /\ Last.s = "Expr"
    /\ Last.expr.e = "Assign"
    /\ LookupBefore(Last.expr.name) = <<>>
Undefined(name) == [k |-> "Message", v |-> "Undefined variable '" \o name \o "'"]
LookupAfterUndefined ==
    /\ Ran
    /\ pc > 2
    /\ stmts[pc - 2].s = "Expr"
    /\ stmts[pc - 2].expr.e = "Assign"
    /\ Last = SExpr(EVariable(stmts[pc - 2].expr.name))
    /\ LookupBefore(Last.expr.name) = <<>>
\* every frame of the environment is without the name
Unbound(e, name) == \A i \in DOMAIN e : name \notin DOMAIN e[i]
IsCallOfP(e) == e = ECall(EVariable("p"), <<>>)

\* C25: Assign{name, expr} when no frame of the chain binds name evaluates
\* expr first and then fails with the undefined-variable error; no frame gets a
\* binding of name, so a following lookup of name is undefined as before.
C25_UndefinedAssignBindsNothing ==
    /\ AssignsUndefined =>
          /\ result.k = "Message"
          /\ Unbound(env, Last.expr.name)
          /\ (Last.expr.expr.e = "Number" \/ IsCallOfP(Last.expr.expr)) =>
                result = Undefined(Last.expr.name)
          /\ IsCallOfP(Last.expr.expr) => Printed = <<f64_to_string(Whole(7))>>
          /\ Last.expr.expr.e = "Variable" => result = Undefined(Last.expr.expr.name)
    /\ LookupAfterUndefined => result = Undefined(Last.expr.name)
    /\ (Ran /\ stmts \in SessionsUndefined) => Unbound(env, "u")
C25_Witness ==
    /\ LookupAfterUndefined
    /\ IsCallOfP(stmts[pc - 2].expr.expr)
    /\ stdout = <<f64_to_string(Whole(7))>>
    /\ result = Undefined("u")

\* the calls of parse_stmt that the loop of parse makes on the text, each with
\* the parser before it and its result; the list ends at Eof, at the first
\* error, and at a call that leaves the parser as it found it
RECURSIVE StmtCalls(_)
StmtCalls(p) ==
    IF curr_is(p, "Eof") THEN <<>>
    ELSE Only({IF r.ok /\ r.p # p THEN <<[before |-> p, r |-> r]>> \o StmtCalls(r.p)
               ELSE <<[before |-> p, r |-> r]>>
               : r \in {self_parse_stmt(p)}})
TopCalls == StmtCalls(ParserNew(src))
\* the parser has consumed a token: its lexer is further on, or its current
\* token has become the Eof that ends the text
Consumed(before, after) ==
    \/ after.lexer.pos > before.lexer.pos
    \/ after.lexer.pos = before.lexer.pos /\ curr_is(after, "Eof") /\ ~curr_is(before, "Eof")

\* every parse_stmt call of the loop of parse that returns Ok has consumed a
\* token, and parse returns Ok only at Eof, with the statements of those calls
ProgressAtEveryCall ==
    Parsed =>
        /\ \A i \in DOMAIN TopCalls :
               TopCalls[i].r.ok => Consumed(TopCalls[i].before, TopCalls[i].r.p)
        /\ ParsedOk =>
               /\ curr_is(parse_source(src).p, "Eof")
               /\ Len(TopCalls) = Len(stmts)
               /\ \A i \in DOMAIN TopCalls : TopCalls[i].r.ok /\ TopCalls[i].r.v = stmts[i]
        /\ ParseFailed =>
               /\ TopCalls # <<>>
               /\ ~TopCalls[Len(TopCalls)].r.ok
\* C26: the parser makes progress and terminates: a parse_stmt call that
\* returns Ok has consumed at least one token, parse returns Ok only when the
\* current token is Eof, and the parse of every text comes to its end.
C26_ParserProgress ==
    /\ parse_source(src).ok \in BOOLEAN
    /\ ProgressAtEveryCall
C26_Witness ==
    /\ ParsedOk
    /\ src \in LoopTexts
    /\ Len(TopCalls) = 3
    /\ TopCalls[3].before.lexer.pos = TopCalls[3].r.p.lexer.pos

\* the last statement ran into `break` (`continue`): it is the loop, the block,
\* the call or the bare statement of a session of JumpSessions
RanInto(jump) ==
    /\ Ran
    /\ stmts \in JumpSessions(jump)
    /\ Last.s \notin {"Function", "PrintArgs"}
\* the lines the statement prints before it reaches the jump
LinesBeforeJump ==
    CASE Last.s = "While" -> <<f64_to_string(Whole(1))>>
      [] Last.s = "For" -> <<f64_to_string(0)>>
      [] Last.s = "Block" -> <<f64_to_string(Whole(1))>>
      [] OTHER -> <<>>

\* C27: a Break or Continue statement neither leaves nor continues a loop: it
\* produces a RuntimeError::Message that ends the enclosing while/for loop,
\* every enclosing block and function call, and the top-level statement, as an
\* error.
C27_JumpsAreErrors ==
    /\ RanInto(SBreak) =>
          /\ result = [k |-> "Message", v |-> "Break not implemented"]
          /\ Printed = LinesBeforeJump
    /\ RanInto(SContinue) =>
          /\ result = [k |-> "Message", v |-> "Continue not implemented"]
          /\ Printed = LinesBeforeJump
C27_Witness ==
    /\ RanInto(SBreak)
    /\ Last.s = "While"
    /\ stdout = <<f64_to_string(Whole(1))>>
    /\ result.k = "Message"

CallA == ECall(EVariable("a"), <<ENumber(Whole(1))>>)
ThroughP ==
    /\ LastCallsFunction
    /\ pc = 3
    /\ stmts[1].s = "Let" /\ stmts[1].name = "p"
    /\ stmts[1].expr.e = "Variable" /\ stmts[1].expr.name \in DOMAIN NativeShape
    /\ Last.expr.function.name = "p"
BuiltIn == stmts[1].expr.name
FailedWith(msg) == result.k = "Message" /\ result.v = msg

\* C29: a built-in value called through another expression, as p(..) after
\* `let p = push;`, is not dispatched natively: with as many arguments as the
\* built-in has parameters its empty body runs and the call returns Null, with
\* another number of arguments it fails with "Argument count mismatch".
C29_AliasedBuiltInIsNotNative ==
    ThroughP =>
        /\ CalledFn[1] = Function(NativeShape[BuiltIn], <<>>)
        /\ Len(Last.expr.arguments) = Len(NativeShape[BuiltIn]) =>
              (ReturnedOk(Null) /\ env = prev.env)
        /\ Len(Last.expr.arguments) # Len(NativeShape[BuiltIn]) =>
              FailedWith("Argument count mismatch")
C29_Witness ==
    /\ ThroughP
    /\ BuiltIn = "push"
    /\ Last.expr.arguments = NativeArgs["push"]
    /\ ReturnedOk(Null)

\* the session is `let xs = [1, .., n]; xs.m(args);` or `let xs = [..]; xs.m;`
OnXs == Ran /\ pc = 3 /\ stmts[1].s = "Let" /\ stmts[1].name = "xs"
XsBefore == LookupBefore("xs")[1]
XsCall ==
    /\ OnXs
    /\ Last.s = "Expr" /\ Last.expr.e = "Call"
    /\ Last.expr.function \in {XsField("push"), XsField("remove")}
XsLength == OnXs /\ Last = SExpr(XsField("length"))
XsLen == OnXs /\ Last = SExpr(XsField("len"))

====
